---------------------------- MODULE Spec2Model ----------------------------
(***************************************************************************)
(* A model of serde-bser: the BSER encoder (src/src/ser.rs), the decoder   *)
(* (src/src/de.rs), the tag vocabulary (src/src/lib.rs) and the error      *)
(* kinds (src/src/error.rs).                                               *)
(*                                                                         *)
(* Bytes are the integers 0..255.  A 64-bit machine word is the tuple of   *)
(* its eight bytes, most significant first (two's complement for signed    *)
(* types): TLC's integers are 32 bits wide, the program's are 64.          *)
(***************************************************************************)
EXTENDS Integers, Sequences, FiniteSets, TLC

VARIABLES
    host,    \* byte order of the build target: what NativeEndian denotes
    pc,      \* "idle" | "encoded" | "decoded" | "open" | "source"
    encBy,   \* entry point that produced sink: "to_vec" | "Serializer" | "wire"
    decBy,   \* entry point that read input: "from_slice" | "from_reader" | "Deserializer"
    order,   \* the byte-order parameter B of the codec in use
    value,   \* the value handed to the encoder (or described by a wire payload)
    target,  \* the shape of the type the decoder is asked for
    tmpl,    \* the template [keys, rows] behind a templated wire payload
    ser,     \* the encoder after the call: [res, out, bo]
    extra,   \* bytes following the encoded value in the decoder's input
    de,      \* the decoder's answer: [err, val, d]
    calls    \* the reads made on an open decoder or source, with their outcomes

vars ==
    <<host, pc, encBy, decBy, order, value, target, tmpl, ser, extra, de, calls>>

---------------------------------------------------------------------------
(* Bounds of the model.                                                    *)

\* longest byte string payload drawn
MaxStrLen == 2
\* most children of a drawn sequence or map
MaxItems == 2
\* most trailing bytes appended to an encoding
MaxExtra == 1
\* most rows of a drawn templated payload
MaxRows == 2
\* The most room a buffer written to has.
MaxRoom == 6
\* The most tag reads made on an open decoder.
MaxCalls == 4
\* The number of encodings laid end to end in a stream.
MaxCopies == 2

---------------------------------------------------------------------------
(* Tag vocabulary, src/src/lib.rs.                                         *)

TagArray == 0
TagObject == 1
TagString == 2
TagInt8 == 3
TagInt16 == 4
TagInt32 == 5
TagInt64 == 6
TagReal == 7
TagTrue == 8
TagFalse == 9
TagNull == 10
TagTemplated == 11
TagMissing == 12

---------------------------------------------------------------------------
(* 64-bit words.                                                           *)

Rev(s) == [i \in 1..Len(s) |-> s[Len(s) + 1 - i]]

\* The i64 holding n, for n in TLC's range (n as i64: sign extension).
I64(n) ==
    LET e == IF n < 0 THEN 255 ELSE 0
    IN  <<e, e, e, e, (n \div 16777216) % 256, (n \div 65536) % 256,
          (n \div 256) % 256, n % 256>>

\* Unsigned order of two words.
U64Lt(a, b) ==
    \E i \in 1..8 : a[i] < b[i] /\ \A j \in 1..(i - 1) : a[j] = b[j]

FlipSign(a) == [a EXCEPT ![1] = (a[1] + 128) % 256]

\* Signed order of two words.
I64Le(a, b) == a = b \/ U64Lt(FlipSign(a), FlipSign(b))

I64Neg(a) == a[1] >= 128

i8_MIN == I64(-128)
i8_MAX == I64(127)
i16_MIN == I64(-32768)
i16_MAX == I64(32767)
i32_MIN == I64(-2147483647 - 1)
i32_MAX == I64(2147483647)
i64_MIN == <<128, 0, 0, 0, 0, 0, 0, 0>>
i64_MAX == <<127, 255, 255, 255, 255, 255, 255, 255>>
u64_MAX == <<255, 255, 255, 255, 255, 255, 255, 255>>

\* v as iN: the low n bytes of the word, most significant first.
LowBytes(w, n) == SubSeq(w, 9 - n, 8)

\* The payload read as an unsigned number.
SignExtend_unsigned(p) == [i \in 1..(8 - Len(p)) |-> 0] \o p

\* iN as i64: sign extension of an n-byte two's complement number.
SignExtend(p) ==
    LET e == IF p[1] >= 128 THEN 255 ELSE 0
    IN  [i \in 1..(8 - Len(p)) |-> e] \o p

\* byteorder's ByteOrder::write_iN / read_iN: the payload as it lies on the wire.
InOrder(bo, p) == IF bo = "BE" THEN p ELSE Rev(p)

NativeEndian == host

---------------------------------------------------------------------------
(* Encoder, src/src/ser.rs.  The encoder is [res, out, bo, room, tags]:    *)
(* the Result of the calls so far, the bytes the writer has taken, the     *)
(* byte order B, and the room the writer has left (Unbounded for a Vec,    *)
(* the free length for a &mut [u8]); tags is a history variable, the tags  *)
(* written with write_tag and where in out each lies.  A `?` in the source *)
(* is the test of res at the head of each operation.                       *)

Unbounded == 0 - 1

NewSerializer(bo) ==
    [res |-> "Ok", out |-> <<>>, bo |-> bo, room |-> Unbounded, tags |-> <<>>]

\* Serializer::new(&mut buf[..room]).
SliceSerializer(bo, room) == [NewSerializer(bo) EXCEPT !.room = room]

Fail(st, e) == [st EXCEPT !.res = e]

\* The count one call of io::Write::write returns: all of the bytes for a
\* Vec, as many as fit for a &mut [u8].
Accepts(st, bytes) ==
    IF st.room = Unbounded \/ Len(bytes) <= st.room THEN Len(bytes) ELSE st.room

\* The writer after it has taken the first n of the bytes.
Put(st, n, bytes) ==
    [st EXCEPT !.out = @ \o SubSeq(bytes, 1, n),
               !.room = IF @ = Unbounded THEN @ ELSE @ - n]

\* io::Write::write_all on the writer (byteorder's write_u8, write_i16, ...):
\* an error (WriteZero) when the writer takes less than all.
WriteAll(st, bytes) ==
    IF st.res # "Ok" THEN st
    ELSE IF Accepts(st, bytes) = Len(bytes) THEN Put(st, Len(bytes), bytes)
    ELSE Fail(Put(st, Accepts(st, bytes), bytes), "Io")

\* One call of io::Write::write on the writer, its count dropped.
Write(st, bytes) ==
    IF st.res # "Ok" THEN st ELSE Put(st, Accepts(st, bytes), bytes)

\* The history of the tags: tag is the byte st has just taken.
Tagged(tag, st) ==
    IF st.res # "Ok" THEN st
    ELSE [st EXCEPT !.tags = Append(@, [tag |-> tag, at |-> Len(st.out)])]

write_tag(st, tag) == Tagged(tag, WriteAll(st, <<tag>>))

\* The Int8 test made against the range of u8.
serialize_int_u8(st, v) ==
    IF I64Le(i8_MIN, v) /\ I64Le(v, I64(255))
    THEN WriteAll(write_tag(st, TagInt8), LowBytes(v, 1))
    ELSE IF I64Le(i16_MIN, v) /\ I64Le(v, i16_MAX)
    THEN WriteAll(write_tag(st, TagInt16), InOrder(st.bo, LowBytes(v, 2)))
    ELSE IF I64Le(i32_MIN, v) /\ I64Le(v, i32_MAX)
    THEN WriteAll(write_tag(st, TagInt32), InOrder(st.bo, LowBytes(v, 4)))
    ELSE WriteAll(write_tag(st, TagInt64), InOrder(st.bo, v))

serialize_int(st, v) ==
    IF I64Le(i8_MIN, v) /\ I64Le(v, i8_MAX)
    THEN WriteAll(write_tag(st, TagInt8), LowBytes(v, 1))
    ELSE IF I64Le(i16_MIN, v) /\ I64Le(v, i16_MAX)
    THEN WriteAll(write_tag(st, TagInt16), InOrder(st.bo, LowBytes(v, 2)))
    ELSE IF I64Le(i32_MIN, v) /\ I64Le(v, i32_MAX)
    THEN WriteAll(write_tag(st, TagInt32), InOrder(st.bo, LowBytes(v, 4)))
    ELSE WriteAll(write_tag(st, TagInt64), InOrder(st.bo, v))

\* The cast to i64 without the test against i64::MAX.
serialize_u64_cast(st, v) == serialize_int(st, v)

serialize_u64(st, v) ==
    IF st.res # "Ok" THEN st
    ELSE IF U64Lt(i64_MAX, v) THEN Fail(st, "IntegerOverflow")
    ELSE serialize_int(st, v)

serialize_usize(st, n) == serialize_u64(st, I64(n))

begin_object(st, size) == serialize_usize(write_tag(st, TagObject), size)

begin_array(st, size) == serialize_usize(write_tag(st, TagArray), size)

serialize_bool(st, v) ==
    IF v THEN write_tag(st, TagTrue) ELSE write_tag(st, TagFalse)

\* serialize_i8 .. serialize_u32: v as i64, then serialize_int.
serialize_ixx(st, v) ==
    IF st.res # "Ok" THEN st ELSE serialize_int(st, v)

serialize_f64(st, bits) == WriteAll(write_tag(st, TagReal), InOrder(st.bo, bits))

serialize_bytes(st, v) ==
    Write(serialize_usize(write_tag(st, TagString), Len(v)), v)

serialize_str(st, v) == serialize_bytes(st, v)

\* char::encode_utf8.
EncodeUtf8(c) ==
    IF c < 128 THEN <<c>>
    ELSE IF c < 2048 THEN <<192 + (c \div 64), 128 + (c % 64)>>
    ELSE IF c < 65536
    THEN <<224 + (c \div 4096), 128 + ((c \div 64) % 64), 128 + (c % 64)>>
    ELSE <<240 + (c \div 262144), 128 + ((c \div 4096) % 64),
           128 + ((c \div 64) % 64), 128 + (c % 64)>>

serialize_char(st, c) == serialize_str(st, EncodeUtf8(c))

\* Missing written for unit.
serialize_unit_missing(st) == write_tag(st, TagMissing)

serialize_unit(st) == write_tag(st, TagNull)

serialize_unit_struct(st) == serialize_unit(st)

serialize_unit_variant(st, variant) == serialize_str(st, variant)

serialize_none(st) == serialize_unit(st)

\* The Array tag written before the length is looked at.
serialize_seq_tagged(st, known, len) ==
    IF st.res # "Ok" THEN st
    ELSE IF known THEN begin_array(st, len)
    ELSE Fail(write_tag(st, TagArray), "LengthRequired")

\* len is Option<usize>: known = FALSE is None.
serialize_seq(st, known, len) ==
    IF st.res # "Ok" THEN st
    ELSE IF known THEN begin_array(st, len)
    ELSE Fail(st, "LengthRequired")

serialize_tuple(st, len) == serialize_seq(st, TRUE, len)

serialize_map(st, known, len) ==
    IF st.res # "Ok" THEN st
    ELSE IF known THEN begin_object(st, len)
    ELSE Fail(st, "LengthRequired")

serialize_struct(st, len) == serialize_map(st, TRUE, len)

serialize_tuple_variant(st, variant, len) ==
    serialize_seq(serialize_str(begin_object(st, 1), variant), TRUE, len)

serialize_struct_variant(st, variant, len) ==
    serialize_map(serialize_str(begin_object(st, 1), variant), TRUE, len)


---------------------------------------------------------------------------
(* itoa::write on a 20-byte buffer: the ASCII decimal rendering.           *)

W64Zero == I64(0)

RECURSIVE Rem10(_, _)
\* The remainder by ten of the number held by the first i bytes of w.
Rem10(w, i) == IF i = 0 THEN 0 ELSE (Rem10(w, i - 1) * 256 + w[i]) % 10

Quot10(w) == [i \in 1..8 |-> (Rem10(w, i - 1) * 256 + w[i]) \div 10]

RECURSIVE Digits(_)
Digits(w) ==
    IF w = W64Zero THEN <<>> ELSE Digits(Quot10(w)) \o <<48 + Rem10(w, 8)>>

\* The magnitude of a negative i64, as a u64: wrapping negation.
Negate(w) ==
    LET inv == [i \in 1..8 |-> 255 - w[i]]
        nz == {i \in 1..8 : inv[i] # 255}
        top == IF nz = {} THEN 0 ELSE CHOOSE i \in nz : \A j \in nz : j <= i
    IN  [i \in 1..8 |-> IF i < top THEN inv[i]
                        ELSE IF i = top THEN inv[i] + 1 ELSE 0]

Signed(ty) == ty \in {"i8", "i16", "i32", "i64"}

\* The magnitude alone: no sign is written.
Itoa_magnitude(ty, w) ==
    IF w = W64Zero THEN <<48>>
    ELSE IF Signed(ty) /\ I64Neg(w) THEN Digits(Negate(w))
    ELSE Digits(w)

Itoa(ty, w) ==
    IF w = W64Zero THEN <<48>>
    ELSE IF Signed(ty) /\ I64Neg(w) THEN <<45>> \o Digits(Negate(w))
    ELSE Digits(w)

KeyBufLen == 20

\* MapKeySerializer::serialize_int.
key_serialize_int(st, ty, w) ==
    LET text == Itoa(ty, w)
    IN  IF Len(text) > KeyBufLen THEN Fail(st, "Io")
        ELSE serialize_bytes(st, text)

---------------------------------------------------------------------------
(* The walk of a value by its Serialize implementation, which calls the    *)
(* encoder's operations in order.  v.k names the serde data-model kind.    *)

\* A bool key rendered as text, like the integers.
key_serialize_bool_text(st, v) ==
    serialize_str(st, IF v THEN <<116, 114, 117, 101>>
                      ELSE <<102, 97, 108, 115, 101>>)

\* MapKeySerializer::serialize_bool.
key_serialize_bool(st, v) == Fail(st, "NonStringKey")

RECURSIVE Serialize(_, _)
RECURSIVE serialize_elements(_, _, _)
RECURSIVE serialize_entries(_, _, _)
RECURSIVE serialize_fields(_, _, _)
RECURSIVE serialize_key(_, _)

\* MapKeySerializer: every kind but strings, bytes, chars, integers, unit
\* variants and newtypes of those is refused.
serialize_key(st, key) ==
    IF st.res # "Ok" THEN st
    ELSE CASE key.k \in {"str", "bytes"} -> serialize_bytes(st, key.s)
           [] key.k = "unit_variant" -> serialize_str(st, key.name)
           [] key.k = "newtype_struct" -> serialize_key(st, key.v)
           [] key.k = "int" -> key_serialize_int(st, key.ty, key.w)
           [] key.k = "char" -> serialize_char(st, key.c)
           [] key.k = "bool" -> key_serialize_bool(st, key.b)
           [] OTHER -> Fail(st, "NonStringKey")

\* SerializeSeq / SerializeTuple / SerializeTupleStruct / SerializeTupleVariant.
serialize_elements(st, items, i) ==
    IF st.res # "Ok" \/ i > Len(items) THEN st
    ELSE serialize_elements(Serialize(st, items[i]), items, i + 1)

\* Each entry's value written before its key.
serialize_entries_swapped(st, entries, i) ==
    IF st.res # "Ok" \/ i > Len(entries) THEN st
    ELSE serialize_entries(
             serialize_key(Serialize(st, entries[i].val), entries[i].key),
             entries, i + 1)

\* SerializeMap::serialize_key then serialize_value, entry by entry.
serialize_entries(st, entries, i) ==
    IF st.res # "Ok" \/ i > Len(entries) THEN st
    ELSE serialize_entries(
             Serialize(serialize_key(st, entries[i].key), entries[i].val),
             entries, i + 1)

\* SerializeStruct / SerializeStructVariant ::serialize_field.
serialize_fields(st, fields, i) ==
    IF st.res # "Ok" \/ i > Len(fields) THEN st
    ELSE serialize_fields(
             Serialize(serialize_str(st, fields[i].name), fields[i].val),
             fields, i + 1)

serialize_newtype_variant(st, variant, v) ==
    Serialize(serialize_str(begin_object(st, 1), variant), v)

Serialize(st, v) ==
    IF st.res # "Ok" THEN st
    ELSE CASE v.k = "bool" -> serialize_bool(st, v.b)
           [] v.k = "int" ->
                IF v.ty = "u64" THEN serialize_u64(st, v.w)
                ELSE serialize_ixx(st, v.w)
           [] v.k = "f64" -> serialize_f64(st, v.bits)
           [] v.k = "char" -> serialize_char(st, v.c)
           [] v.k = "str" -> serialize_str(st, v.s)
           [] v.k = "bytes" -> serialize_bytes(st, v.s)
           [] v.k = "unit" -> serialize_unit(st)
           [] v.k = "unit_struct" -> serialize_unit_struct(st)
           [] v.k = "unit_variant" -> serialize_unit_variant(st, v.name)
           [] v.k = "newtype_struct" -> Serialize(st, v.v)
           [] v.k = "newtype_variant" -> serialize_newtype_variant(st, v.name, v.v)
           [] v.k = "none" -> serialize_none(st)
           [] v.k = "some" -> Serialize(st, v.v)
           [] v.k = "seq" ->
                serialize_elements(serialize_seq(st, v.known, Len(v.items)),
                                   v.items, 1)
           [] v.k \in {"tuple", "tuple_struct"} ->
                serialize_elements(serialize_tuple(st, Len(v.items)), v.items, 1)
           [] v.k = "tuple_variant" ->
                serialize_elements(
                    serialize_tuple_variant(st, v.name, Len(v.items)), v.items, 1)
           [] v.k = "map" ->
                serialize_entries(serialize_map(st, v.known, Len(v.entries)),
                                  v.entries, 1)
           [] v.k = "struct" ->
                serialize_fields(serialize_struct(st, Len(v.fields)), v.fields, 1)
           [] v.k = "struct_variant" ->
                serialize_fields(
                    serialize_struct_variant(st, v.name, Len(v.fields)),
                    v.fields, 1)

\* to_writer on a Vec, and to_vec: Serializer::native, then value.serialize.
to_vec(v) == Serialize(NewSerializer(NativeEndian), v)

---------------------------------------------------------------------------
(* Input sources, src/src/de.rs.  The decoder is                           *)
(*   [src, input, index, tag, scratch, bo]:                                *)
(* the kind of source ("slice": SliceRead, "io": IoRead over an in-memory  *)
(* reader), its bytes and cursor, the pushed-back tag (NoTag: None), the   *)
(* scratch buffer, and the byte-order parameter B.  rows and subs are       *)
(* history variables: the cursor and the tag slot after each templated     *)
(* row, and for each Array, Object or Templated value that a visitor has   *)
(* returned from, the count its prefix declared and the sub-values read;   *)
(* keys is the key list of the template last read, and views the          *)
(* References that read_ref has returned.                                  *)

NoTag == 0 - 1

\* A usize too large for TLC's integers is held as HugeLen; no input of
\* the model is that long.
HugeLen == 127 * 16777216 + 16777215

NewDeserializer(src, bytes, bo) ==
    [src |-> src, input |-> bytes, index |-> 0, tag |-> NoTag,
     scratch |-> <<>>, bo |-> bo, rows |-> <<>>, subs |-> <<>>,
     keys |-> <<>>, views |-> <<>>]

Remaining(d) == Len(d.input) - d.index

\* Read::next of SliceRead and of IoRead: [err, some, byte, d].
Next_byte(d) ==
    IF d.index < Len(d.input)
    THEN [err |-> "Ok", some |-> TRUE, byte |-> d.input[d.index + 1],
          d |-> [d EXCEPT !.index = @ + 1]]
    ELSE [err |-> "Ok", some |-> FALSE, byte |-> 0, d |-> d]

(* A result is [err, val, d]: err = "Ok" or the error kind ("InvalidType", *)
(* "InvalidValue", "InvalidLength", "UnknownVariant", "MissingField" and   *)
(* "DuplicateField" are the Error::Message values that serde's de::Error   *)
(* constructors build; "Abort" is the process aborting), the value, and    *)
(* the decoder afterwards.  An operator whose last parameter is a result   *)
(* r is the step after the one that gave r, and hands an error of r on, as *)
(* the ? of the source does.                                               *)

Unit == [k |-> "unit"]

Ok(val, d) == [err |-> "Ok", val |-> val, d |-> d]

Err(e, d) == [err |-> e, val |-> Unit, d |-> d]

\* io::Read::read_exact over the source's io::Read::read: the n bytes, or
\* UnexpectedEof once the bytes that were left have been taken.
read_exact(d, n) ==
    IF n <= Remaining(d)
    THEN Ok(SubSeq(d.input, d.index + 1, d.index + n),
            [d EXCEPT !.index = @ + n])
    ELSE Err("Io", [d EXCEPT !.index = Len(d.input)])

\* Vec::resize(len, 0).
Resize(buf, len) ==
    [i \in 1..len |-> IF i <= Len(buf) THEN buf[i] ELSE 0]

\* A short read that takes what is left, as read_exact does.
slice_read_ref_drained(d, len) ==
    IF len <= Remaining(d)
    THEN Ok([kind |-> "Borrowed",
             bytes |-> SubSeq(d.input, d.index + 1, d.index + len)],
            [d EXCEPT !.index = @ + len])
    ELSE Err("Io", [d EXCEPT !.index = Len(d.input)])

\* A slice read through the scratch buffer, as a reader is.
slice_read_ref_copied(d, len) ==
    IF len <= Remaining(d)
    THEN Ok([kind |-> "Copied",
             bytes |-> SubSeq(d.input, d.index + 1, d.index + len)],
            [d EXCEPT !.index = @ + len,
                      !.scratch = SubSeq(d.input, d.index + 1, d.index + len)])
    ELSE Err("Io", d)

\* SliceRead::read_ref.
slice_read_ref(d, len) ==
    IF len <= Remaining(d)
    THEN Ok([kind |-> "Borrowed",
             bytes |-> SubSeq(d.input, d.index + 1, d.index + len)],
            [d EXCEPT !.index = @ + len])
    ELSE Err("Io", d)

\* IoRead::read_ref.  A resize to a length no allocation can hold aborts.
io_read_ref(d, len) ==
    IF len = HugeLen THEN Err("Abort", d)
    ELSE IF len <= Remaining(d)
    THEN Ok([kind |-> "Copied",
             bytes |-> SubSeq(d.input, d.index + 1, d.index + len)],
            [d EXCEPT !.index = @ + len,
                      !.scratch = SubSeq(d.input, d.index + 1, d.index + len)])
    ELSE Err("Io", [d EXCEPT !.index = Len(d.input),
                             !.scratch = Resize(d.scratch, len)])

\* The history of the views: the Reference r holds, asked for with the
\* cursor of d0 and the length len, and the scratch buffer behind it.
Viewed(d0, len, r) ==
    IF r.err # "Ok" THEN r
    ELSE [r EXCEPT !.d.views =
             Append(@, [kind |-> r.val.kind, at |-> d0.index, len |-> len,
                        bytes |-> r.val.bytes, scratch |-> r.d.scratch])]

\* Read::read_ref with the length that n holds.
read_ref(n) ==
    IF n.err # "Ok" THEN n
    ELSE IF n.d.src = "slice" THEN Viewed(n.d, n.val, slice_read_ref(n.d, n.val))
    ELSE Viewed(n.d, n.val, io_read_ref(n.d, n.val))

---------------------------------------------------------------------------
(* Decoder, src/src/de.rs.                                                 *)

\* peek_tag that does not push the tag back.
peek_tag_uncached(d) ==
    IF d.tag # NoTag THEN Ok(d.tag, d)
    ELSE IF d.index >= Len(d.input) THEN Err("Io", d)
    ELSE IF d.input[d.index + 1] > TagMissing
    THEN Err("MalformedTag", [d EXCEPT !.index = @ + 1])
    ELSE Ok(d.input[d.index + 1], [d EXCEPT !.index = @ + 1])

\* peek_tag taking the byte after Missing for a tag.
peek_tag_lax(d) ==
    IF d.tag # NoTag THEN Ok(d.tag, d)
    ELSE IF d.index >= Len(d.input) THEN Err("Io", d)
    ELSE IF d.input[d.index + 1] > TagMissing + 1
    THEN Err("MalformedTag", [d EXCEPT !.index = @ + 1])
    ELSE Ok(d.input[d.index + 1],
            [d EXCEPT !.index = @ + 1, !.tag = d.input[d.index + 1]])

\* Deserializer::peek_tag: the value is the tag.
peek_tag(d) ==
    IF d.tag # NoTag THEN Ok(d.tag, d)
    ELSE IF d.index >= Len(d.input) THEN Err("Io", d)
    ELSE IF d.input[d.index + 1] > TagMissing
    THEN Err("MalformedTag", [d EXCEPT !.index = @ + 1])
    ELSE Ok(d.input[d.index + 1],
            [d EXCEPT !.index = @ + 1, !.tag = d.input[d.index + 1]])

\* Deserializer::read_tag.
read_tag(d) ==
    IF peek_tag(d).err # "Ok" THEN peek_tag(d)
    ELSE [peek_tag(d) EXCEPT !.d.tag = NoTag]

\* The number a payload read with read_iN::<NativeEndian> denotes, as i64.
NativeInt(p) == SignExtend(InOrder(NativeEndian, p))

NumberTags == {TagInt8, TagInt16, TagInt32, TagInt64, TagReal}

PayloadLen(tag) ==
    CASE tag = TagInt8 -> 1
      [] tag = TagInt16 -> 2
      [] tag = TagInt32 -> 4
      [] tag = TagInt64 -> 8
      [] tag = TagReal -> 8
      [] OTHER -> 0

\* The bounds of serde's primitive visitors for the integer types.
IntMin(ty) ==
    CASE ty = "i8" -> i8_MIN [] ty = "i16" -> i16_MIN [] ty = "i32" -> i32_MIN
      [] ty = "i64" -> i64_MIN [] OTHER -> W64Zero

IntMax(ty) ==
    CASE ty = "i8" -> i8_MAX [] ty = "i16" -> i16_MAX [] ty = "i32" -> i32_MAX
      [] ty = "i64" -> i64_MAX
      [] ty = "u8" -> I64(255) [] ty = "u16" -> I64(65535)
      [] ty = "u32" -> <<0, 0, 0, 0, 255, 255, 255, 255>>
      [] OTHER -> i64_MAX

\* The usize a word holds, on a 64-bit target.
UsizeOf(w) ==
    IF w[1] = 0 /\ w[2] = 0 /\ w[3] = 0 /\ w[4] = 0 /\ w[5] < 128
    THEN ((w[5] * 256 + w[6]) * 256 + w[7]) * 256 + w[8]
    ELSE HugeLen

\* visit_i8..visit_i64 of serde's primitive visitor for the target type ty,
\* with the value v.
visit_int(ty, v, d) ==
    IF I64Le(IntMin(ty), v) /\ I64Le(v, IntMax(ty))
    THEN IF ty = "usize" THEN Ok(UsizeOf(v), d)
         ELSE Ok([k |-> "int", ty |-> ty, w |-> v], d)
    ELSE Err("InvalidValue", d)

\* The visitor call of deserialize_prim_number on the payload p read for
\* the tag: visit_i8..visit_i64 for an integer tag, visit_f64 for Real.  An
\* integer delivered to the f64 visitor is kept as "f64_of_int".
visit_number(ty, tag, p) ==
    IF p.err # "Ok" THEN p
    ELSE IF tag = TagReal
    THEN IF ty = "f64"
         THEN Ok([k |-> "f64", bits |-> InOrder(NativeEndian, p.val)], p.d)
         ELSE Err("InvalidType", p.d)
    ELSE IF ty = "f64"
    THEN Ok([k |-> "f64_of_int", w |-> NativeInt(p.val)], p.d)
    ELSE visit_int(ty, NativeInt(p.val), p.d)

\* de::Error::invalid_type, once the unexpected value has been read.
invalid_type(r) == IF r.err # "Ok" THEN r ELSE Err("InvalidType", r.d)

RECURSIVE bad_tag(_, _)
RECURSIVE deserialize_prim_number(_, _)

\* Deserializer::read_usize.
read_usize(r) ==
    IF r.err # "Ok" THEN r ELSE deserialize_prim_number("usize", r.d)

\* Deserializer::read_bytes: the value is [kind, bytes], a Reference.
read_bytes(r) == read_ref(read_usize(r))

bad_tag(tag, d) ==
    IF tag = TagString THEN invalid_type(read_bytes(Ok(Unit, d)))
    ELSE IF tag \in NumberTags THEN invalid_type(read_exact(d, PayloadLen(tag)))
    ELSE Err("InvalidType", d)

deserialize_prim_number(ty, d) ==
    LET t == read_tag(d)
    IN  IF t.err # "Ok" THEN t
        ELSE IF t.val \in NumberTags
        THEN visit_number(ty, t.val, read_exact(t.d, PayloadLen(t.val)))
        ELSE bad_tag(t.val, t.d)

\* Deserializer::expect_tag.
expect_tag(d, tag) ==
    LET t == read_tag(d)
    IN  IF t.err # "Ok" THEN t
        ELSE IF t.val = tag THEN Ok(Unit, t.d)
        ELSE bad_tag(t.val, t.d)

---------------------------------------------------------------------------
(* What the binding layer asks for is a shape, [s |-> kind, ...]: the type *)
(* whose Deserialize implementation drives the decoder.                    *)

Cont(b) == b >= 128 /\ b <= 191

RECURSIVE ValidUtf8(_, _)
\* str::from_utf8 on s from position i.
ValidUtf8(s, i) ==
    IF i > Len(s) THEN TRUE
    ELSE IF s[i] < 128 THEN ValidUtf8(s, i + 1)
    ELSE IF s[i] >= 194 /\ s[i] <= 223
    THEN Len(s) - i >= 1 /\ Cont(s[i + 1]) /\ ValidUtf8(s, i + 2)
    ELSE IF s[i] >= 224 /\ s[i] <= 239
    THEN /\ Len(s) - i >= 2 /\ Cont(s[i + 1]) /\ Cont(s[i + 2])
         /\ (s[i] = 224 => s[i + 1] >= 160)
         /\ (s[i] = 237 => s[i + 1] <= 159)
         /\ ValidUtf8(s, i + 3)
    ELSE IF s[i] >= 240 /\ s[i] <= 244
    THEN /\ Len(s) - i >= 3 /\ Cont(s[i + 1]) /\ Cont(s[i + 2])
         /\ Cont(s[i + 3])
         /\ (s[i] = 240 => s[i + 1] >= 144)
         /\ (s[i] = 244 => s[i + 1] <= 143)
         /\ ValidUtf8(s, i + 4)
    ELSE FALSE

\* The position of name among the names of a struct's fields or an enum's
\* variants (0: none), as the derived identifier visitor matches bytes.
IndexOf(list, name) ==
    IF \A i \in 1..Len(list) : list[i].name # name THEN 0
    ELSE CHOOSE i \in 1..Len(list) :
            /\ list[i].name = name
            /\ \A j \in 1..(i - 1) : list[j].name # name

Ignored == [k |-> "ignored"]

\* Visitor::visit_bytes / visit_borrowed_bytes of the string-like shapes,
\* on the bytes r holds; the visitor of &'de [u8] ("borrowed_bytes") has
\* visit_borrowed_bytes alone.
visit_bytes(shape, r) ==
    IF r.err # "Ok" THEN r
    ELSE CASE shape.s = "bytes" -> Ok([k |-> "bytes", s |-> r.val.bytes], r.d)
           [] shape.s = "str" ->
                 IF ValidUtf8(r.val.bytes, 1)
                 THEN Ok([k |-> "str", s |-> r.val.bytes], r.d)
                 ELSE Err("InvalidValue", r.d)
           [] shape.s = "borrowed_bytes" ->
                 IF r.val.kind = "Borrowed"
                 THEN Ok([k |-> "bytes", s |-> r.val.bytes], r.d)
                 ELSE Err("InvalidType", r.d)
           [] shape.s = "ignored" -> Ok(Ignored, r.d)
           [] OTHER -> Err("InvalidType", r.d)

\* Some(v) or a newtype struct around the value r holds.
Wrap(k, r) == IF r.err # "Ok" THEN r ELSE Ok([k |-> k, v |-> r.val], r.d)

\* The value val once the step that gave r has succeeded.
Const(val, r) == IF r.err # "Ok" THEN r ELSE Ok(val, r.d)

RECURSIVE string_lit(_, _)
\* StringLitAccess as a Deserializer, and as the EnumAccess whose variant
\* access is DummyUnitVariantAccess, on the bytes r holds.
string_lit(shape, r) ==
    IF r.err # "Ok" THEN r
    ELSE CASE shape.s = "option" -> Wrap("some", string_lit(shape.of, r))
           [] shape.s = "newtype_struct" ->
                 Wrap("newtype_struct", string_lit(shape.of, r))
           [] shape.s = "enum" ->
                 IF IndexOf(shape.variants, r.val.bytes) = 0
                 THEN Err("UnknownVariant", r.d)
                 ELSE IF shape.variants[IndexOf(shape.variants,
                                                r.val.bytes)].kind = "unit"
                 THEN Ok([k |-> "unit_variant", name |-> r.val.bytes], r.d)
                 ELSE Err("InvalidType", r.d)
           [] OTHER -> visit_bytes(shape, r)

Dec(n) == IF n = HugeLen THEN HugeLen ELSE n - 1

\* SeqAccess, TemplatedAccess, MapAccess and TemplatedMapAccess are
\* [kind, remaining, keys, pos]: keys is the template's key list (each
\* [owned, bytes], a Cow) and pos the TemplatedMapAccess iterator.
Access(kind, remaining, keys) ==
    [kind |-> kind, remaining |-> remaining, keys |-> keys, pos |-> 1]

RECURSIVE Deserialize(_, _)
RECURSIVE deserialize_row(_, _, _)
RECURSIVE visit_seq_elements(_, _, _, _)
RECURSIVE next_key_seed(_, _)
RECURSIVE visit_map_entries(_, _, _)
RECURSIVE template_keys(_, _)

\* The history of the rows: the cursor and the tag slot after a row.
Logged(r) ==
    IF r.err # "Ok" THEN r
    ELSE [r EXCEPT !.d.rows = Append(@, [index |-> r.d.index, tag |-> r.d.tag])]

\* The value e holds, appended to items.
Push(items, e) == IF e.err # "Ok" THEN e ELSE Ok(Append(items, e.val), e.d)

\* SeqAccess::next_element_seed and TemplatedAccess::next_element_seed when
\* remaining is not 0 (when it is, they are None and the visitors below
\* stop): r holds the elements so far.
next_element_seed(shape, acc, r) ==
    IF acc.kind = "seq" THEN Push(r.val, Deserialize(shape, r.d))
    ELSE Push(r.val, Logged(deserialize_row(shape, acc.keys, r.d)))

\* Whether the shape's visit_seq takes one element for each of its parts (a
\* tuple, a derived struct) or elements until None (Vec<T>, IgnoredAny).
Fixed(shape) == shape.s \in {"tuple", "tuple_struct", "struct"}

Arity(shape) ==
    IF shape.s = "struct" THEN Len(shape.fields) ELSE Len(shape.of)

\* The type of the i-th element that the shape's visit_seq asks for.
ElementShape(shape, i) ==
    CASE shape.s = "seq" -> shape.of
      [] shape.s = "ignored" -> shape
      [] shape.s = "struct" -> shape.fields[i].of
      [] OTHER -> shape.of[i]

\* The loop of the shape's visit_seq from the i-th element: elements until
\* None for Vec<T> and IgnoredAny; one for each part of a tuple or a
\* derived struct, a missing one being invalid_length.
visit_seq_elements(shape, acc, i, r) ==
    IF r.err # "Ok" \/ (Fixed(shape) /\ i > Arity(shape)) THEN r
    ELSE IF acc.remaining = 0
    THEN IF Fixed(shape) THEN Err("InvalidLength", r.d) ELSE r
    ELSE visit_seq_elements(shape, [acc EXCEPT !.remaining = Dec(@)], i + 1,
                            next_element_seed(ElementShape(shape, i), acc, r))

\* The key that was read, with the access after it.
Keyed(acc, r) ==
    IF r.err # "Ok" THEN r
    ELSE Ok([some |-> TRUE, kind |-> r.val.kind, bytes |-> r.val.bytes,
             acc |-> acc], r.d)

\* No cell taken for Missing.
IsMissing_never(tag) == FALSE

IsMissing(tag) == tag = TagMissing

\* The Missing tag left in the slot.
skip_missing_kept(d) == d

\* TemplatedMapAccess::next_key_seed taking the Missing tag out of the slot.
skip_missing(d) == [d EXCEPT !.tag = NoTag]

\* The bytes a key of the template denotes when it is handed out: its own
\* for a Cow::Owned, the input's for a Cow::Borrowed of a slice, and whatever
\* the scratch buffer holds by then for a view of the scratch buffer.
KeyBytes(key, d) ==
    IF key.owned \/ d.src = "slice" THEN key.bytes
    ELSE Resize(d.scratch, Len(key.bytes))

\* MapAccess::next_key_seed and TemplatedMapAccess::next_key_seed, up to
\* the key bytes handed to StringLitAccess: the value is [some, bytes, acc].
next_key_seed(acc, d) ==
    IF acc.kind = "map"
    THEN IF acc.remaining = 0
         THEN Ok([some |-> FALSE, bytes |-> <<>>, acc |-> acc], d)
         ELSE Keyed([acc EXCEPT !.remaining = Dec(@)],
                    read_bytes(expect_tag(d, TagString)))
    ELSE IF acc.pos > Len(acc.keys)
         THEN Ok([some |-> FALSE, bytes |-> <<>>, acc |-> acc], d)
         ELSE IF peek_tag(d).err # "Ok" THEN peek_tag(d)
         ELSE IF IsMissing(peek_tag(d).val)
         THEN next_key_seed([acc EXCEPT !.pos = @ + 1],
                            skip_missing(peek_tag(d).d))
         ELSE Ok([some |-> TRUE,
                  kind |-> IF acc.keys[acc.pos].owned THEN "Copied"
                           ELSE "Borrowed",
                  bytes |-> KeyBytes(acc.keys[acc.pos], peek_tag(d).d),
                  acc |-> [acc EXCEPT !.pos = @ + 1]], peek_tag(d).d)

\* The entry of the key and the value v holds, appended to entries.
PushEntry(entries, key, v) ==
    IF v.err # "Ok" THEN v
    ELSE Ok(Append(entries, [key |-> key, val |-> v.val]), v.d)

\* The key seed of the shape's visit_map on the bytes k holds, through
\* StringLitAccess: the key of a map, the index of a field of a derived
\* struct (0: a field it does not have).
map_key(shape, k) ==
    CASE shape.s = "struct" -> Ok(IndexOf(shape.fields, k.val.bytes), k.d)
      [] shape.s = "ignored" -> string_lit(shape, k)
      [] OTHER -> string_lit(shape.key, k)

\* The type of the value that the shape's visit_map asks for after key.
ValueShape(shape, key) ==
    CASE shape.s = "struct" ->
            IF key = 0 THEN [s |-> "ignored"] ELSE shape.fields[key].of
      [] shape.s = "ignored" -> shape
      [] OTHER -> shape.of

\* One turn of the shape's visit_map, with the result k of next_key: the
\* key and its value, then the entries after.  A derived struct refuses a
\* field it already holds.
map_entry(shape, entries, k) ==
    IF k.err # "Ok" THEN k
    ELSE IF ~k.val.some THEN Ok(entries, k.d)
    ELSE LET key == map_key(shape, k)
         IN  IF key.err # "Ok" THEN key
             ELSE IF /\ shape.s = "struct"
                     /\ key.val # 0
                     /\ \E i \in 1..Len(entries) : entries[i].key = key.val
             THEN Err("DuplicateField", k.d)
             ELSE visit_map_entries(shape, k.val.acc,
                      PushEntry(entries, key.val,
                                Deserialize(ValueShape(shape, key.val), k.d)))

\* The loop of the shape's visit_map: entries until None; r holds the
\* entries so far.
visit_map_entries(shape, acc, r) ==
    IF r.err # "Ok" THEN r
    ELSE map_entry(shape, r.val, next_key_seed(acc, r.d))

\* The value the shape's visit_seq returns from the elements r holds.
Collect(shape, r) ==
    IF r.err # "Ok" THEN r
    ELSE CASE shape.s = "seq" ->
                 Ok([k |-> "seq", known |-> TRUE, items |-> r.val], r.d)
           [] shape.s \in {"tuple", "tuple_struct"} ->
                 Ok([k |-> shape.s, items |-> r.val], r.d)
           [] shape.s = "struct" ->
                 Ok([k |-> "struct",
                     fields |-> [i \in 1..Len(shape.fields) |->
                                    [name |-> shape.fields[i].name,
                                     val |-> r.val[i]]]], r.d)
           [] shape.s = "ignored" -> Ok(Ignored, r.d)

\* Whether the entries hold field i of a derived struct.
Has(entries, i) == \E j \in 1..Len(entries) : entries[j].key = i

\* Field i of a derived struct from the entries: serde's missing_field for
\* one they do not hold is None for an Option.
FieldValue(entries, i) ==
    IF Has(entries, i)
    THEN entries[CHOOSE j \in 1..Len(entries) : entries[j].key = i].val
    ELSE [k |-> "none"]

\* The value the shape's visit_map returns from the entries r holds.
CollectMap(shape, r) ==
    IF r.err # "Ok" THEN r
    ELSE CASE shape.s = "map" ->
                 Ok([k |-> "map", known |-> TRUE, entries |-> r.val], r.d)
           [] shape.s = "ignored" -> Ok(Ignored, r.d)
           [] shape.s = "struct" ->
                 IF \E i \in 1..Len(shape.fields) :
                       ~Has(r.val, i) /\ shape.fields[i].of.s # "option"
                 THEN Err("MissingField", r.d)
                 ELSE Ok([k |-> "struct",
                          fields |-> [i \in 1..Len(shape.fields) |->
                                         [name |-> shape.fields[i].name,
                                          val |-> FieldValue(r.val, i)]]], r.d)

\* The history of the sub-values: the visitor returns the sub-values r
\* holds from an access that declared n of them (a templated row declares
\* no count and is left out).
Noted(counted, n, r) ==
    IF r.err # "Ok" \/ ~counted THEN r
    ELSE [r EXCEPT !.d.subs = Append(@, [declared |-> n, read |-> Len(r.val)])]

\* Visitor::visit_seq of the shape's visitor, on a SeqAccess or a
\* TemplatedAccess of the length n holds.
visit_seq(shape, kind, keys, n) ==
    IF n.err # "Ok" THEN n
    ELSE IF shape.s \notin {"seq", "ignored", "tuple", "tuple_struct", "struct"}
    THEN Err("InvalidType", n.d)
    ELSE Collect(shape,
             Noted(TRUE, n.val,
                   visit_seq_elements(shape, Access(kind, n.val, keys), 1,
                                      Ok(<<>>, n.d))))

\* Visitor::visit_map of the shape's visitor, on a MapAccess of the length
\* n holds or a TemplatedMapAccess.
visit_map(shape, kind, keys, n) ==
    IF n.err # "Ok" THEN n
    ELSE IF shape.s \notin {"map", "ignored", "struct"}
    THEN Err("InvalidType", n.d)
    ELSE CollectMap(shape,
             Noted(kind = "map", n.val,
                   visit_map_entries(shape, Access(kind, n.val, keys),
                                     Ok(<<>>, n.d))))

\* Deserializer::scan_array, r being the read of the tag.
scan_array(shape, r) == visit_seq(shape, "seq", <<>>, read_usize(r))

\* Deserializer::scan_object, r being the read of the tag.
scan_object(shape, r) == visit_map(shape, "map", <<>>, read_usize(r))

\* Every key kept as a view, the Copied ones too.
PushKey_borrowed(keys, b) ==
    IF b.err # "Ok" THEN b
    ELSE Ok(Append(keys, [owned |-> FALSE, bytes |-> b.val.bytes]), b.d)

\* The key b holds, appended to keys.
PushKey(keys, b) ==
    IF b.err # "Ok" THEN b
    ELSE Ok(Append(keys, [owned |-> b.val.kind = "Copied",
                          bytes |-> b.val.bytes]), b.d)

\* The loop of scan_templated that reads n keys; r holds the keys so far.
template_keys(n, r) ==
    IF r.err # "Ok" \/ n = 0 THEN r
    ELSE template_keys(Dec(n),
             PushKey(r.val, read_bytes(expect_tag(r.d, TagString))))

\* scan_templated with the number of keys k holds: Vec::with_capacity of a
\* count no allocation can hold aborts.
template_header(k) ==
    IF k.err # "Ok" THEN k
    ELSE IF k.val = HugeLen THEN Err("Abort", k.d)
    ELSE template_keys(k.val, Ok(<<>>, k.d))

\* The history of the key list: the keys as scan_templated holds them.
KeysNoted(ks) == IF ks.err # "Ok" THEN ks ELSE [ks EXCEPT !.d.keys = ks.val]

\* scan_templated with the keys ks holds.
template_rows(shape, ks) ==
    IF ks.err # "Ok" THEN ks
    ELSE visit_seq(shape, "templated", ks.val, read_usize(KeysNoted(ks)))

\* Deserializer::scan_templated, r being the read of the tag.
scan_templated(shape, r) ==
    IF r.err # "Ok" THEN r
    ELSE template_rows(shape,
             template_header(read_usize(expect_tag(r.d, TagArray))))

\* TemplatedAccess as a Deserializer: one row.
deserialize_row(shape, keys, d) ==
    CASE shape.s = "option" -> Wrap("some", deserialize_row(shape.of, keys, d))
      [] shape.s = "newtype_struct" ->
            Wrap("newtype_struct", deserialize_row(shape.of, keys, d))
      [] OTHER -> visit_map(shape, "templated", keys, Ok(0, d))

\* Deserializer::deserialize_bytes, which deserialize_str, _string, _char,
\* _byte_buf and _identifier all reach.
deserialize_bytes(shape, d) ==
    visit_bytes(shape, read_bytes(expect_tag(d, TagString)))

deserialize_bool(d) ==
    LET t == read_tag(d)
    IN  IF t.err # "Ok" THEN t
        ELSE IF t.val = TagTrue THEN Ok([k |-> "bool", b |-> TRUE], t.d)
        ELSE IF t.val = TagFalse THEN Ok([k |-> "bool", b |-> FALSE], t.d)
        ELSE bad_tag(t.val, t.d)

deserialize_unit(shape, d) == Const([k |-> shape.s], expect_tag(d, TagNull))

\* The tag taken rather than peeked, so that the inner value starts a byte
\* late.
deserialize_option_taken(shape, d) ==
    LET t == read_tag(d)
    IN  IF t.err # "Ok" THEN t
        ELSE IF t.val = TagNull THEN Ok([k |-> "none"], t.d)
        ELSE Wrap("some", Deserialize(shape.of, t.d))

\* Missing taken for an absent value, like Null.
deserialize_option_missing(shape, d) ==
    LET t == peek_tag(d)
    IN  IF t.err # "Ok" THEN t
        ELSE IF t.val \in {TagNull, TagMissing}
        THEN Ok([k |-> "none"], [t.d EXCEPT !.tag = NoTag])
        ELSE Wrap("some", Deserialize(shape.of, t.d))

deserialize_option(shape, d) ==
    LET t == peek_tag(d)
    IN  IF t.err # "Ok" THEN t
        ELSE IF t.val = TagNull
        THEN Ok([k |-> "none"], [t.d EXCEPT !.tag = NoTag])
        ELSE Wrap("some", Deserialize(shape.of, t.d))

deserialize_newtype_struct(shape, d) ==
    Wrap("newtype_struct", Deserialize(shape.of, d))

\* deserialize_seq, which deserialize_tuple and _tuple_struct reach.
deserialize_seq(shape, d) ==
    LET t == read_tag(d)
    IN  IF t.err # "Ok" THEN t
        ELSE IF t.val = TagArray THEN scan_array(shape, t)
        ELSE IF t.val = TagTemplated THEN scan_templated(shape, t)
        ELSE bad_tag(t.val, t.d)

deserialize_map(shape, d) == scan_object(shape, expect_tag(d, TagObject))

deserialize_struct(shape, d) ==
    LET t == read_tag(d)
    IN  IF t.err # "Ok" THEN t
        ELSE IF t.val = TagArray THEN scan_array(shape, t)
        ELSE IF t.val = TagTemplated THEN scan_templated(shape, t)
        ELSE IF t.val = TagObject THEN scan_object(shape, t)
        ELSE bad_tag(t.val, t.d)

\* The variant var around the payload r holds.
Variant(var, r) ==
    IF r.err # "Ok" THEN r
    ELSE CASE var.kind = "unit" ->
                 Ok([k |-> "unit_variant", name |-> var.name], r.d)
           [] var.kind = "newtype" ->
                 Ok([k |-> "newtype_variant", name |-> var.name, v |-> r.val],
                    r.d)
           [] var.kind = "tuple" ->
                 Ok([k |-> "tuple_variant", name |-> var.name,
                     items |-> r.val.items], r.d)
           [] var.kind = "struct" ->
                 Ok([k |-> "struct_variant", name |-> var.name,
                     fields |-> r.val.fields], r.d)

\* The type whose visitor the VariantAccess method of the variant's kind
\* drives: unit_variant is deserialize_unit, newtype_variant_seed the seed,
\* tuple_variant deserialize_seq, struct_variant deserialize_struct.
PayloadShape(var) ==
    CASE var.kind = "unit" -> [s |-> "unit"]
      [] var.kind = "newtype" -> var.of
      [] var.kind = "tuple" -> [s |-> "tuple", of |-> var.of]
      [] var.kind = "struct" -> [s |-> "struct", fields |-> var.of]

\* VariantAccess with the identifier id holds, which variant_seed
\* deserialized from the decoder.
variant_access(shape, id) ==
    IF id.err # "Ok" THEN id
    ELSE LET i == IndexOf(shape.variants, id.val.s)
         IN  IF i = 0 THEN Err("UnknownVariant", id.d)
             ELSE Variant(shape.variants[i],
                          Deserialize(PayloadShape(shape.variants[i]),
                                      id.d))

deserialize_enum(shape, d) ==
    LET t == peek_tag(d)
    IN  IF t.err # "Ok" THEN t
        ELSE IF t.val = TagObject
        THEN variant_access(shape, deserialize_bytes([s |-> "bytes"], t.d))
        ELSE IF t.val = TagString
        THEN string_lit(shape, read_bytes(Ok(Unit, [t.d EXCEPT !.tag = NoTag])))
        ELSE bad_tag(t.val, t.d)

\* deserialize_any, as deserialize_ignored_any reaches it with the visitor
\* of IgnoredAny.
deserialize_any(shape, d) ==
    LET t == read_tag(d)
    IN  IF t.err # "Ok" THEN t
        ELSE IF t.val = TagArray THEN scan_array(shape, t)
        ELSE IF t.val = TagObject THEN scan_object(shape, t)
        ELSE IF t.val = TagString THEN visit_bytes(shape, read_bytes(t))
        ELSE IF t.val \in NumberTags
        THEN Const(Ignored, read_exact(t.d, PayloadLen(t.val)))
        ELSE IF t.val \in {TagTrue, TagFalse, TagNull} THEN Ok(Ignored, t.d)
        ELSE IF t.val = TagTemplated THEN scan_templated(shape, t)
        ELSE bad_tag(TagMissing, t.d)

\* T::deserialize(&mut Deserializer) for the type of the shape.
Deserialize(shape, d) ==
    CASE shape.s = "bool" -> deserialize_bool(d)
      [] shape.s = "int" -> deserialize_prim_number(shape.ty, d)
      [] shape.s = "f64" -> deserialize_prim_number("f64", d)
      [] shape.s \in {"str", "bytes", "char", "borrowed_bytes"} ->
            deserialize_bytes(shape, d)
      [] shape.s = "option" -> deserialize_option(shape, d)
      [] shape.s \in {"unit", "unit_struct"} -> deserialize_unit(shape, d)
      [] shape.s = "newtype_struct" -> deserialize_newtype_struct(shape, d)
      [] shape.s \in {"seq", "tuple", "tuple_struct"} -> deserialize_seq(shape, d)
      [] shape.s = "map" -> deserialize_map(shape, d)
      [] shape.s = "struct" -> deserialize_struct(shape, d)
      [] shape.s = "enum" -> deserialize_enum(shape, d)
      [] shape.s = "ignored" -> deserialize_any(shape, d)

\* The value returned without a look at the rest of the source.
end_unchecked(r) == r

\* Deserializer::end after the value r holds, which is returned.
end_(r) ==
    IF r.err # "Ok" THEN r
    ELSE IF r.d.tag = NoTag /\ ~Next_byte(r.d).some
    THEN Ok(r.val, Next_byte(r.d).d)
    ELSE Err("TrailingBytes", Next_byte(r.d).d)

\* The body of from_slice (src = "slice") and of from_reader (src = "io"),
\* where B is NativeEndian: Deserializer::new, T::deserialize, end.
Decode(src, bo, shape, bytes) ==
    end_(Deserialize(shape, NewDeserializer(src, bytes, bo)))

---------------------------------------------------------------------------
(* The type of a value: the shape its Deserialize implementation asks for. *)

RECURSIVE ShapeOf(_)
ShapeOf(v) ==
    CASE v.k \in {"bool", "f64", "str", "bytes", "char", "unit", "unit_struct"}
            -> [s |-> v.k]
      [] v.k = "int" -> [s |-> "int", ty |-> v.ty]
      [] v.k = "none" -> [s |-> "option", of |-> [s |-> "unit"]]
      [] v.k = "some" -> [s |-> "option", of |-> ShapeOf(v.v)]
      [] v.k = "newtype_struct" -> [s |-> "newtype_struct", of |-> ShapeOf(v.v)]
      [] v.k = "seq" ->
            [s |-> "seq",
             of |-> IF v.items = <<>> THEN [s |-> "unit"] ELSE ShapeOf(v.items[1])]
      [] v.k \in {"tuple", "tuple_struct"} ->
            [s |-> v.k, of |-> [i \in 1..Len(v.items) |-> ShapeOf(v.items[i])]]
      [] v.k = "map" ->
            [s |-> "map",
             key |-> IF v.entries = <<>> THEN [s |-> "str"]
                     ELSE ShapeOf(v.entries[1].key),
             of |-> IF v.entries = <<>> THEN [s |-> "unit"]
                    ELSE ShapeOf(v.entries[1].val)]
      [] v.k = "struct" ->
            [s |-> "struct",
             fields |-> [i \in 1..Len(v.fields) |->
                            [name |-> v.fields[i].name,
                             of |-> ShapeOf(v.fields[i].val)]]]
      [] v.k = "unit_variant" ->
            [s |-> "enum", variants |-> <<[name |-> v.name, kind |-> "unit"]>>]
      [] v.k = "newtype_variant" ->
            [s |-> "enum",
             variants |-> <<[name |-> v.name, kind |-> "newtype",
                             of |-> ShapeOf(v.v)]>>]
      [] v.k = "tuple_variant" ->
            [s |-> "enum",
             variants |-> <<[name |-> v.name, kind |-> "tuple",
                             of |-> [i \in 1..Len(v.items) |->
                                        ShapeOf(v.items[i])]]>>]
      [] v.k = "struct_variant" ->
            [s |-> "enum",
             variants |-> <<[name |-> v.name, kind |-> "struct",
                             of |-> [i \in 1..Len(v.fields) |->
                                        [name |-> v.fields[i].name,
                                         of |-> ShapeOf(v.fields[i].val)]]]>>]

---------------------------------------------------------------------------
(* The values drawn.                                                       *)

SeqsUpTo(S, n) == UNION {[1..m -> S] : m \in 0..n}

BoolV(b) == [k |-> "bool", b |-> b]
IntV(ty, w) == [k |-> "int", ty |-> ty, w |-> w]
StrV(s) == [k |-> "str", s |-> s]
BytesV(s) == [k |-> "bytes", s |-> s]
FloatV(bits) == [k |-> "f64", bits |-> bits]
SeqV(items) == [k |-> "seq", known |-> TRUE, items |-> items]
MapV(entries) == [k |-> "map", known |-> TRUE, entries |-> entries]
Entry(key, val) == [key |-> key, val |-> val]
Field(name, val) == [name |-> name, val |-> val]

\* Integers on both sides of every width boundary, in every integer type.
I64Words ==
    {I64(-129), I64(-128), I64(-1), I64(0), I64(5), I64(127), I64(128),
     I64(-32769), I64(-32768), I64(-300), I64(32767), I64(32768),
     i32_MIN, <<255, 255, 255, 255, 127, 255, 255, 255>>,
     i32_MAX, <<0, 0, 0, 0, 128, 0, 0, 0>>,
     <<0, 0, 0, 0, 222, 173, 190, 239>>, i64_MIN, i64_MAX}

BigU64 == {<<128, 0, 0, 0, 0, 0, 0, 0>>, u64_MAX}

IntValues ==
    {IntV("i64", w) : w \in I64Words}
    \cup {IntV("i8", I64(n)) : n \in {-128, -1, 12, 127}}
    \cup {IntV("i16", I64(n)) : n \in {-32768, 300, 32767}}
    \cup {IntV("i32", w) : w \in {i32_MIN, I64(43), I64(1976), i32_MAX}}
    \cup {IntV("u8", I64(n)) : n \in {0, 255}}
    \cup {IntV("u16", I64(n)) : n \in {256, 65535}}
    \cup {IntV("u32", w) : w \in {I64(70000), <<0, 0, 0, 0, 255, 255, 255, 255>>}}
    \cup {IntV("u64", w) : w \in {I64(0), I64(200), i64_MAX} \cup BigU64}

\* 1.0, -2.5 and 0.0.
FloatValues ==
    {FloatV(<<63, 240, 0, 0, 0, 0, 0, 0>>), FloatV(<<192, 4, 0, 0, 0, 0, 0, 0>>),
     FloatV(<<0, 0, 0, 0, 0, 0, 0, 0>>)}

Letters == {97, 98}

StrValues == {StrV(s) : s \in SeqsUpTo(Letters, MaxStrLen)}

BytesValues == {BytesV(s) : s \in SeqsUpTo({97, 255}, MaxStrLen)}

Scalars ==
    {BoolV(TRUE), BoolV(FALSE), Unit, [k |-> "unit_struct"],
     [k |-> "char", c |-> 97], [k |-> "char", c |-> 233]}
    \cup IntValues \cup FloatValues \cup StrValues \cup BytesValues

\* The children drawn for sequences and maps: one integer of each width.
Elems == {IntV("i64", I64(5)), IntV("i64", I64(-300)),
          IntV("i64", <<0, 0, 0, 0, 222, 173, 190, 239>>)}

UnknownSeq == [k |-> "seq", known |-> FALSE, items |-> <<IntV("i64", I64(5))>>]

UnknownMap ==
    [k |-> "map", known |-> FALSE,
     entries |-> <<Entry(StrV(<<97>>), IntV("i64", I64(5)))>>]

Seqs ==
    {SeqV(items) : items \in SeqsUpTo(Elems, MaxItems)}
    \cup {SeqV(items) : items \in SeqsUpTo({StrV(<<97>>), StrV(<<98, 98>>)}, MaxItems)}
    \cup {UnknownSeq, UnknownMap}
    \cup {SeqV(items) :
            items \in SeqsUpTo({SeqV(<<IntV("i64", I64(5))>>), UnknownSeq,
                                SeqV(<<IntV("u64", u64_MAX)>>)}, MaxItems)}
    \cup {SeqV(items) :
            items \in SeqsUpTo({MapV(<<Entry(StrV(<<97>>), IntV("i64", I64(5)))>>),
                                UnknownMap}, MaxItems)}

Tuples ==
    {[k |-> "tuple", items |-> <<IntV("i64", I64(-300)), BoolV(TRUE)>>],
     [k |-> "tuple", items |-> <<StrV(<<97>>), Unit, IntV("u8", I64(255))>>],
     [k |-> "tuple_struct", items |-> <<IntV("i16", I64(300)), StrV(<<98>>)>>]}

\* Keys of every kind the key sub-encoder is handed.
GoodKeys ==
    {StrV(<<97>>), StrV(<<98>>), BytesV(<<255>>), [k |-> "char", c |-> 233],
     IntV("i8", I64(-128)), IntV("i64", i64_MIN), IntV("u64", u64_MAX),
     IntV("u16", I64(256)), [k |-> "unit_variant", name |-> <<65>>],
     [k |-> "newtype_struct", v |-> StrV(<<97>>)]}
    \cup {IntV("i8", I64(127)), IntV("i16", I64(-32768)), IntV("i16", I64(32767)),
          IntV("i32", i32_MIN), IntV("i32", i32_MAX), IntV("i64", i64_MAX),
          IntV("i64", I64(-1)), IntV("u8", I64(0)), IntV("u8", I64(255)),
          IntV("u16", I64(65535)),
          IntV("u32", <<0, 0, 0, 0, 255, 255, 255, 255>>), IntV("u64", I64(0))}

BadKeys ==
    {BoolV(TRUE), FloatV(<<63, 240, 0, 0, 0, 0, 0, 0>>), Unit,
     [k |-> "unit_struct"], [k |-> "none"], [k |-> "some", v |-> StrV(<<97>>)],
     SeqV(<<>>), [k |-> "tuple", items |-> <<StrV(<<97>>)>>],
     [k |-> "tuple_struct", items |-> <<StrV(<<97>>)>>], MapV(<<>>),
     [k |-> "struct", fields |-> <<>>],
     [k |-> "newtype_variant", name |-> <<78>>, v |-> StrV(<<97>>)],
     [k |-> "tuple_variant", name |-> <<84>>, items |-> <<>>],
     [k |-> "struct_variant", name |-> <<83>>, fields |-> <<>>],
     [k |-> "newtype_struct", v |-> BoolV(FALSE)]}

Maps ==
    {MapV(es) :
       es \in SeqsUpTo({Entry(key, val) : key \in {StrV(<<97>>), StrV(<<98>>)},
                                          val \in Elems}, MaxItems)}
    \cup {MapV(es \o <<Entry(key, IntV("i64", I64(-300)))>>) :
            key \in GoodKeys \cup BadKeys,
            es \in SeqsUpTo({Entry(StrV(<<97>>), IntV("i64", I64(5)))},
                            MaxItems - 1)}
    \cup {MapV(<<Entry(StrV(<<97>>), val)>>) :
            val \in {IntV("u64", u64_MAX), IntV("u64", I64(200)), UnknownSeq,
                     SeqV(<<IntV("i64", I64(5))>>), MapV(<<>>)}}

Structs ==
    {[k |-> "struct",
      fields |-> <<Field(<<110>>, name), Field(<<97>>, IntV("i32", I64(43))),
                   Field(<<121>>, IntV("i32", year))>>] :
        name \in {StrV(<<>>), StrV(<<97, 98>>)}, year \in {I64(1976), i32_MIN}}
    \cup {[k |-> "struct", fields |-> <<>>],
          [k |-> "struct", fields |-> <<Field(<<97>>, IntV("u64", u64_MAX))>>],
          [k |-> "struct",
           fields |-> <<Field(<<109>>, MapV(<<Entry(StrV(<<97>>),
                                                   IntV("i64", I64(5)))>>)),
                        Field(<<115>>, SeqV(<<StrV(<<97>>), StrV(<<>>)>>))>>]}

Options ==
    {[k |-> "none"], [k |-> "some", v |-> IntV("i64", I64(5))],
     [k |-> "some", v |-> Unit], [k |-> "some", v |-> StrV(<<97>>)],
     [k |-> "newtype_struct", v |-> IntV("i64", I64(-300))]}

Variants ==
    {[k |-> "unit_variant", name |-> <<65>>],
     [k |-> "newtype_variant", name |-> <<78>>, v |-> IntV("i64", I64(5))],
     [k |-> "tuple_variant", name |-> <<84>>,
      items |-> <<IntV("i64", I64(5)), IntV("i64", I64(-300))>>],
     [k |-> "struct_variant", name |-> <<83>>,
      fields |-> <<Field(<<97>>, IntV("i64", I64(5)))>>]}

Values ==
    Scalars \cup Seqs \cup Tuples \cup Maps \cup Structs \cup Options
    \cup Variants

\* The values written to a buffer of limited room.
SinkValues ==
    StrValues \cup BytesValues
    \cup {IntV("i64", I64(-300)), SeqV(<<StrV(<<97>>), StrV(<<98, 98>>)>>),
          MapV(<<Entry(StrV(<<97>>), IntV("i64", I64(5)))>>)}

\* The values encoded with an explicit byte order.
OrderedValues ==
    IntValues \cup FloatValues
    \cup {SeqV(items) : items \in SeqsUpTo(Elems, 1)}

\* Bytes that follow an encoding: tags and a byte that is no tag.
TrailBytes == {TagArray, TagMissing, 255}

Extras == SeqsUpTo(TrailBytes, MaxExtra)

---------------------------------------------------------------------------
(* Templated payloads, which only a peer writes: a template is             *)
(* [keys, rows], each row holding one cell for each key, a cell being a    *)
(* value or Missing.                                                       *)

Missing == [k |-> "missing"]

KeyLists == {<<>>, <<(<<97>>)>>, <<(<<97>>), (<<98, 98>>)>>}

Cells == {Missing, IntV("i64", I64(5)), IntV("i64", I64(-300))}

Templates ==
    UNION {{[keys |-> ks, rows |-> rs] :
              rs \in SeqsUpTo([1..Len(ks) -> Cells], MaxRows)} : ks \in KeyLists}

NoTemplate == [keys |-> <<>>, rows |-> <<>>]

\* Templates whose cells are text, of other lengths than the keys.
TextCells == {Missing, StrV(<<97, 97>>)}

TextTemplates ==
    UNION {{[keys |-> ks, rows |-> rs] :
              rs \in SeqsUpTo([1..Len(ks) -> TextCells], MaxRows)} :
           ks \in KeyLists \ {<<>>}}

TextRowShape == [s |-> "map", key |-> [s |-> "str"], of |-> [s |-> "str"]]

RowShape == [s |-> "map", key |-> [s |-> "str"], of |-> [s |-> "int", ty |-> "i64"]]

RECURSIVE write_cells(_, _, _)
write_cells(st, cells, i) ==
    IF i > Len(cells) THEN st
    ELSE write_cells(IF cells[i] = Missing THEN write_tag(st, TagMissing)
                     ELSE Serialize(st, cells[i]), cells, i + 1)

RECURSIVE write_rows(_, _, _)
write_rows(st, rows, i) ==
    IF i > Len(rows) THEN st
    ELSE write_rows(write_cells(st, rows[i], 1), rows, i + 1)

\* The bytes up to the first row: the Templated tag, the Array of keys, and
\* the row count.
TemplateHeader(t) ==
    serialize_usize(
        Serialize(write_tag(NewSerializer(NativeEndian), TagTemplated),
                  SeqV([i \in 1..Len(t.keys) |-> StrV(t.keys[i])])),
        Len(t.rows))

TemplatedPayload(t) == write_rows(TemplateHeader(t), t.rows, 1)

\* The map a row stands for: the entries of its cells that are not Missing,
\* in the order of the keys.
RowMap(keys, row) ==
    LET present == SelectSeq([j \in 1..Len(keys) |-> j],
                             LAMBDA j : row[j] # Missing)
    IN  MapV([n \in 1..Len(present) |->
                 Entry(StrV(keys[present[n]]), row[present[n]])])

\* The array of maps a template stands for.
Expanded(t) == SeqV([r \in 1..Len(t.rows) |-> RowMap(t.keys, t.rows[r])])

---------------------------------------------------------------------------
(* Bytes from a peer that no encoder of this library wrote, each with the  *)
(* type it is decoded as: [bytes, shape].                                  *)

IntShape == [s |-> "int", ty |-> "i64"]

StrShape == [s |-> "str"]

SeqShape == [s |-> "seq", of |-> IntShape]

MapShape == [s |-> "map", key |-> StrShape, of |-> IntShape]

StructShape == [s |-> "struct", fields |-> <<[name |-> <<97>>, of |-> IntShape]>>]

EnumShape ==
    [s |-> "enum",
     variants |-> <<[name |-> <<65>>, kind |-> "unit"],
                    [name |-> <<78>>, kind |-> "newtype", of |-> IntShape]>>]

OptionShape == [s |-> "option", of |-> IntShape]

TupleShape == [s |-> "tuple", of |-> <<IntShape>>]

Shapes ==
    {[s |-> "bool"], IntShape, [s |-> "f64"], StrShape, [s |-> "bytes"],
     [s |-> "unit"], SeqShape, MapShape, StructShape, EnumShape, OptionShape,
     TupleShape, [s |-> "ignored"]}

Place(prefix, shape, expects) ==
    [prefix |-> prefix, shape |-> shape, expects |-> expects]

\* The places of an input where the decoder reads a tag: where a value is
\* expected (at the top level, as an Array element, as an Object value, as
\* the cell of a templated row), where a key is, and where a length is.
Places ==
    {Place(<<>>, sh, "value") : sh \in Shapes}
    \cup {Place(<<TagArray, TagInt8, 1>>, sh, "value") :
             sh \in {SeqShape, TupleShape, [s |-> "ignored"]}}
    \cup {Place(<<TagObject, TagInt8, 1, TagString, TagInt8, 1, 97>>, sh,
                "value") : sh \in {MapShape, StructShape}}
    \cup {Place(<<TagTemplated, TagArray, TagInt8, 1, TagString, TagInt8, 1, 97,
                  TagInt8, 1>>, [s |-> "seq", of |-> sh], "cell") :
             sh \in {RowShape, StructShape}}
    \cup {Place(<<TagObject, TagInt8, 1>>, sh, "key") :
             sh \in {MapShape, StructShape, [s |-> "ignored"]}}
    \cup {Place(<<TagTemplated, TagArray, TagInt8, 1>>, SeqShape, "key")}
    \cup {Place(<<TagString>>, sh, "length") : sh \in {StrShape, [s |-> "bytes"]}}
    \cup {Place(<<TagArray>>, sh, "length") : sh \in {SeqShape, TupleShape}}
    \cup {Place(<<TagObject>>, sh, "length") : sh \in {MapShape, StructShape}}
    \cup {Place(pre, [s |-> "seq", of |-> RowShape], "length") :
             pre \in {<<TagTemplated, TagArray>>,
                      <<TagTemplated, TagArray, TagInt8, 0>>,
                      <<TagTemplated, TagArray, TagInt8, 1, TagString>>}}

Payload(bytes, shape) == [bytes |-> bytes, shape |-> shape]

\* What may follow the byte under test.
Tails == {<<>>, <<TagInt8, 5>>}

\* A Missing tag in each place.
MissingPlaces ==
    {Payload(pl.prefix \o <<TagMissing>> \o tail, pl.shape) :
        pl \in Places, tail \in Tails}

\* A byte that is no tag in each place.
BadTagPlaces ==
    {Payload(pl.prefix \o <<b>> \o tail, pl.shape) :
        pl \in Places, b \in {TagMissing + 1, 255}, tail \in Tails}

\* Negative integers of each width, as they lie on the wire (the bytes are
\* the same in both byte orders).
NegativeInts ==
    {<<TagInt8, 255>>, <<TagInt8, 128>>, <<TagInt16, 255, 255>>,
     <<TagInt32, 254, 254, 254, 254>>,
     <<TagInt64, 255, 255, 255, 255, 255, 255, 255, 255>>}

\* A negative length or count in each place of a length.
NegativeLengths ==
    {Payload(pl.prefix \o n \o tail, pl.shape) :
        pl \in {q \in Places : q.expects = "length"}, n \in NegativeInts,
        tail \in {<<>>, <<TagInt8, 5>>, <<97>>}}

\* The complete payload of a tag: nothing for Array and Object of no
\* children, "a" for String, 5 for the integers, 0.0 for Real, a template
\* of no keys and no rows.
Complete(tag) ==
    CASE tag \in {TagArray, TagObject} -> <<TagInt8, 0>>
      [] tag = TagString -> <<TagInt8, 1, 97>>
      [] tag = TagInt8 -> <<5>>
      [] tag = TagInt16 -> <<5, 5>>
      [] tag = TagInt32 -> <<5, 5, 5, 5>>
      [] tag = TagInt64 -> <<0, 5, 5, 5, 5, 5, 5, 0>>
      [] tag = TagReal -> <<0, 0, 0, 0, 0, 0, 0, 0>>
      [] tag = TagTemplated -> <<TagArray, TagInt8, 0, TagInt8, 0>>
      [] OTHER -> <<>>

\* Each tag at the top level for each type, its payload complete or cut off
\* after the tag.
TagsByShape ==
    UNION {{Payload(<<tag>>, sh), Payload(<<tag>> \o Complete(tag), sh)} :
              tag \in TagArray..TagMissing, sh \in Shapes}

\* Arrays, Objects and templates decoded as tuples and structs of another
\* arity: [1, 2] and [[1, [5]]] as (i64,) and [(i64,)], [1, 2] and
\* {a: 1, b: 2} as a struct of one field, a template of no keys and two
\* rows as a one-tuple, and [] as a one-tuple.
ArityMismatches ==
    {Payload(<<TagArray, TagInt8, 2, TagInt8, 1, TagInt8, 2>>, TupleShape),
     Payload(<<TagArray, TagInt8, 2, TagArray, TagInt8, 2, TagInt8, 1,
               TagArray, TagInt8, 1, TagInt8, 5>>,
             [s |-> "seq", of |-> TupleShape]),
     Payload(<<TagArray, TagInt8, 2, TagInt8, 1, TagInt8, 2>>, StructShape),
     Payload(<<TagObject, TagInt8, 2, TagString, TagInt8, 1, 97, TagInt8, 1,
               TagString, TagInt8, 1, 98, TagInt8, 2>>, StructShape),
     Payload(<<TagTemplated, TagArray, TagInt8, 0, TagInt8, 2>>,
             [s |-> "tuple", of |-> <<RowShape>>]),
     Payload(<<TagArray, TagInt8, 0>>, TupleShape)}

\* Inputs for tag reads: up to two bytes, tags or a byte that is no tag.
TagStreams == SeqsUpTo({TagTrue, TagMissing, TagMissing + 1}, 2)

\* Slices read byte by byte and view by view, and the lengths asked for:
\* HugeLen is a length whose sum with the cursor overflows usize.
SliceInputs == {<<>>, <<97>>, <<97, 255, 97>>}

ReadLens == {0, 2, HugeLen}

\* &'de [u8], which only borrowed bytes can fill.
BorrowedShape == [s |-> "borrowed_bytes"]

\* The String "a", the Object {a: 5} and the template of the row {a: 5},
\* decoded as &[u8] and as maps keyed by &[u8] (from a reader, through
\* Deserializer::new and T::deserialize).
BorrowedPayloads ==
    {Payload(<<TagString, TagInt8, 1, 97>>, BorrowedShape),
     Payload(<<TagObject, TagInt8, 1, TagString, TagInt8, 1, 97, TagInt8, 5>>,
             [s |-> "map", key |-> BorrowedShape, of |-> IntShape]),
     Payload(<<TagTemplated, TagArray, TagInt8, 1, TagString, TagInt8, 1, 97,
               TagInt8, 1, TagInt8, 5>>,
             [s |-> "seq",
              of |-> [s |-> "map", key |-> BorrowedShape, of |-> IntShape]])}

Payloads ==
    MissingPlaces \cup BadTagPlaces \cup NegativeLengths \cup TagsByShape
    \cup ArityMismatches \cup BorrowedPayloads

---------------------------------------------------------------------------
(* The session: a value is encoded, or a payload arrives; it is decoded;   *)
(* the codecs are dropped.                                                 *)

Idle(h) ==
    /\ host = h
    /\ pc = "idle"
    /\ encBy = "none"
    /\ decBy = "none"
    /\ order = h
    /\ value = Unit
    /\ target = [s |-> "unit"]
    /\ tmpl = NoTemplate
    /\ ser = NewSerializer(h)
    /\ extra = <<>>
    /\ de = Ok(Unit, NewDeserializer("slice", <<>>, h))
    /\ calls = <<>>

Init == \E h \in {"LE", "BE"} : Idle(h)

\* to_vec(&v).
ToVec(v) ==
    /\ pc = "idle"
    /\ pc' = "encoded"
    /\ encBy' = "to_vec"
    /\ value' = v
    /\ target' = ShapeOf(v)
    /\ ser' = to_vec(v)
    /\ UNCHANGED <<host, decBy, order, tmpl, extra, de, calls>>

\* v.serialize(&mut Serializer::<_, B>::new(Vec::new())).
SerializeWith(v, bo) ==
    /\ pc = "idle"
    /\ pc' = "encoded"
    /\ encBy' = "Serializer"
    /\ order' = bo
    /\ value' = v
    /\ target' = ShapeOf(v)
    /\ ser' = Serialize(NewSerializer(bo), v)
    /\ UNCHANGED <<host, decBy, tmpl, extra, de, calls>>

\* A templated payload arrives from a peer on this host.
Receive(t) ==
    /\ pc = "idle"
    /\ pc' = "encoded"
    /\ encBy' = "wire"
    /\ tmpl' = t
    /\ value' = Expanded(t)
    /\ target' = [s |-> "seq", of |-> RowShape]
    /\ ser' = TemplatedPayload(t)
    /\ UNCHANGED <<host, decBy, order, extra, de, calls>>

\* A templated payload of text cells arrives from a peer on this host.
ReceiveText(t) ==
    /\ pc = "idle"
    /\ pc' = "encoded"
    /\ encBy' = "wire"
    /\ tmpl' = t
    /\ value' = Expanded(t)
    /\ target' = [s |-> "seq", of |-> TextRowShape]
    /\ ser' = TemplatedPayload(t)
    /\ UNCHANGED <<host, decBy, order, extra, de, calls>>

\* to_writer(&mut buf[..room], &v).
ToWriter(v, room) ==
    /\ pc = "idle"
    /\ pc' = "encoded"
    /\ encBy' = "to_writer"
    /\ value' = v
    /\ target' = ShapeOf(v)
    /\ ser' = Serialize(SliceSerializer(NativeEndian, room), v)
    /\ UNCHANGED <<host, decBy, order, tmpl, extra, de, calls>>

\* Bytes arrive from a peer, to be decoded as the type p.shape.
ReceiveBytes(p) ==
    /\ pc = "idle"
    /\ pc' = "encoded"
    /\ encBy' = "peer"
    /\ value' = [k |-> "unknown"]
    /\ target' = p.shape
    /\ ser' = [NewSerializer(host) EXCEPT !.out = p.bytes]
    /\ UNCHANGED <<host, decBy, order, tmpl, extra, de, calls>>

\* from_slice(&bytes) (src = "slice") or from_reader(&bytes[..]) (src =
\* "io") on the encoding followed by x; or, for bytes written under an
\* explicit byte order, T::deserialize(&mut Deserializer::<_, B>::new(..))
\* with the same B, then end().  A buffer that to_writer filled is not
\* read back.
FromBytes(src, x) ==
    /\ pc = "encoded"
    /\ ser.res = "Ok"
    /\ encBy # "to_writer"
    /\ encBy \in {"Serializer", "peer"} => x = <<>>
    /\ pc' = "decoded"
    /\ decBy' = IF encBy = "Serializer" THEN "Deserializer"
                ELSE IF src = "slice" THEN "from_slice" ELSE "from_reader"
    /\ extra' = x
    /\ de' = Decode(src, order, target, ser.out \o x)
    /\ UNCHANGED <<host, encBy, order, value, target, tmpl, ser, calls>>

\* Deserializer::new over bytes from a peer, for the tag reads that the
\* deserialize_* methods are made of.
Open(src, bytes) ==
    /\ pc = "idle"
    /\ pc' = "open"
    /\ encBy' = "peer"
    /\ decBy' = "Deserializer"
    /\ value' = [k |-> "unknown"]
    /\ ser' = [NewSerializer(host) EXCEPT !.out = bytes]
    /\ de' = Ok(Unit, NewDeserializer(src, bytes, NativeEndian))
    /\ UNCHANGED <<host, order, target, tmpl, extra, calls>>

\* The outcome of a tag read: what it returned, and the cursor and the
\* pushed-back tag it left.
Call(op, r) ==
    [op |-> op, err |-> r.err, val |-> r.val, index |-> r.d.index,
     tag |-> r.d.tag]

\* self.peek_tag() on the open decoder.
PeekTag ==
    /\ pc = "open"
    /\ Len(calls) < MaxCalls
    /\ de' = peek_tag(de.d)
    /\ calls' = Append(calls, Call("peek_tag", peek_tag(de.d)))
    /\ UNCHANGED <<host, pc, encBy, decBy, order, value, target, tmpl, ser, extra>>

\* self.read_tag() on the open decoder.
ReadTag ==
    /\ pc = "open"
    /\ Len(calls) < MaxCalls
    /\ de' = read_tag(de.d)
    /\ calls' = Append(calls, Call("read_tag", read_tag(de.d)))
    /\ UNCHANGED <<host, pc, encBy, decBy, order, value, target, tmpl, ser, extra>>

\* SliceRead::new(&bytes), for the reads the decoder makes of it.
OpenSlice(bytes) ==
    /\ pc = "idle"
    /\ pc' = "source"
    /\ encBy' = "peer"
    /\ decBy' = "SliceRead"
    /\ value' = [k |-> "unknown"]
    /\ ser' = [NewSerializer(host) EXCEPT !.out = bytes]
    /\ de' = Ok(Unit, NewDeserializer("slice", bytes, NativeEndian))
    /\ UNCHANGED <<host, order, target, tmpl, extra, calls>>

\* Read::next on the open slice source.
SliceNext ==
    /\ pc = "source"
    /\ Len(calls) < MaxCalls
    /\ de' = [err |-> Next_byte(de.d).err, val |-> Unit, d |-> Next_byte(de.d).d]
    /\ calls' = Append(calls, [op |-> "next", len |-> 1,
                               err |-> Next_byte(de.d).err,
                               some |-> Next_byte(de.d).some,
                               bytes |-> <<Next_byte(de.d).byte>>,
                               index |-> Next_byte(de.d).d.index])
    /\ UNCHANGED <<host, pc, encBy, decBy, order, value, target, tmpl, ser, extra>>

\* Read::read_ref(len, scratch) on the open slice source.
SliceReadRef(len) ==
    /\ pc = "source"
    /\ Len(calls) < MaxCalls
    /\ de' = [slice_read_ref(de.d, len) EXCEPT !.val = Unit]
    /\ calls' = Append(calls, [op |-> "read_ref", len |-> len,
                               err |-> slice_read_ref(de.d, len).err,
                               some |-> slice_read_ref(de.d, len).err = "Ok",
                               bytes |-> IF slice_read_ref(de.d, len).err = "Ok"
                                         THEN slice_read_ref(de.d, len).val.bytes
                                         ELSE <<>>,
                               index |-> slice_read_ref(de.d, len).d.index])
    /\ UNCHANGED <<host, pc, encBy, decBy, order, value, target, tmpl, ser, extra>>

RECURSIVE Repeat(_, _)
\* n copies of bytes, end to end.
Repeat(bytes, n) == IF n = 0 THEN <<>> ELSE bytes \o Repeat(bytes, n - 1)

\* Deserializer::new over MaxCopies copies of the encoding, end to end.
OpenStream(src) ==
    /\ pc = "encoded"
    /\ ser.res = "Ok"
    /\ encBy \in {"to_vec", "wire", "peer"}
    /\ pc' = "stream"
    /\ decBy' = "Deserializer"
    /\ de' = Ok(Unit, NewDeserializer(src, Repeat(ser.out, MaxCopies), order))
    /\ calls' = <<>>
    /\ UNCHANGED <<host, encBy, order, value, target, tmpl, ser, extra>>

\* T::deserialize(&mut de) once more on the same decoder.
DeserializeNext ==
    /\ pc = "stream"
    /\ de.err = "Ok"
    /\ Len(calls) < MaxCopies
    /\ de' = Deserialize(target, de.d)
    /\ calls' = Append(calls, Call("deserialize", Deserialize(target, de.d)))
    /\ UNCHANGED <<host, pc, encBy, decBy, order, value, target, tmpl, ser, extra>>

\* de.end() after the last value of the stream.
End ==
    /\ pc = "stream"
    /\ de.err = "Ok"
    /\ Len(calls) = MaxCopies
    /\ pc' = "ended"
    /\ de' = end_(de)
    /\ UNCHANGED <<host, encBy, decBy, order, value, target, tmpl, ser, extra, calls>>

\* The codecs and the value are dropped.
Reset ==
    /\ pc \in {"encoded", "decoded", "open", "source", "stream", "ended"}
    /\ pc' = "idle"
    /\ encBy' = "none"
    /\ decBy' = "none"
    /\ order' = host
    /\ value' = Unit
    /\ target' = [s |-> "unit"]
    /\ tmpl' = NoTemplate
    /\ ser' = NewSerializer(host)
    /\ extra' = <<>>
    /\ de' = Ok(Unit, NewDeserializer("slice", <<>>, host))
    /\ calls' = <<>>
    /\ UNCHANGED host

Next ==
    \/ \E v \in Values : ToVec(v)
    \/ \E v \in OrderedValues, bo \in {"LE", "BE"} : SerializeWith(v, bo)
    \/ \E t \in Templates : Receive(t)
    \/ \E t \in TextTemplates : ReceiveText(t)
    \/ \E v \in SinkValues, room \in 0..MaxRoom : ToWriter(v, room)
    \/ \E p \in Payloads : ReceiveBytes(p)
    \/ \E src \in {"slice", "io"}, x \in Extras : FromBytes(src, x)
    \/ \E src \in {"slice", "io"}, bytes \in TagStreams : Open(src, bytes)
    \/ PeekTag
    \/ ReadTag
    \/ \E bytes \in SliceInputs : OpenSlice(bytes)
    \/ SliceNext
    \/ \E len \in ReadLens : SliceReadRef(len)
    \/ \E src \in {"slice", "io"} : OpenStream(src)
    \/ DeserializeNext
    \/ End
    \/ Reset

Spec == Init /\ [][Next]_vars

---------------------------------------------------------------------------
(* Properties.                                                             *)

IsBigU64(v) == v.k = "int" /\ v.ty = "u64" /\ U64Lt(i64_MAX, v.w)

UnknownLength(v) == v.k \in {"seq", "map"} /\ ~v.known

RECURSIVE InDomain(_)
\* The supported domain of the round trip: bool, unit, integers in the i64
\* range, byte and text strings, sequences, maps with string keys, structs.
InDomain(v) ==
    CASE v.k \in {"bool", "unit", "str", "bytes"} -> TRUE
      [] v.k = "int" -> ~IsBigU64(v)
      [] v.k = "seq" ->
            v.known /\ \A i \in 1..Len(v.items) : InDomain(v.items[i])
      [] v.k = "map" ->
            /\ v.known
            /\ \A i \in 1..Len(v.entries) :
                  v.entries[i].key.k = "str" /\ InDomain(v.entries[i].val)
      [] v.k = "struct" ->
            \A i \in 1..Len(v.fields) : InDomain(v.fields[i].val)
      [] OTHER -> FALSE

RECURSIVE Flat(_)
\* The concatenation of a sequence of byte strings.
Flat(ss) == IF ss = <<>> THEN <<>> ELSE Head(ss) \o Flat(Tail(ss))

\* The Read implementation behind the decoding entry point that ran.
Source == IF decBy = "from_reader" THEN "io" ELSE "slice"

\* C1: for every value of the supported domain, to_vec succeeds, and
\* from_slice on its bytes succeeds and returns an equal value, the entries
\* of maps and structs in the order they were encoded in.
C1_RoundTrip ==
    (encBy = "to_vec" /\ InDomain(value)) =>
        /\ ser.res = "Ok"
        /\ (pc = "decoded" /\ decBy = "from_slice" /\ extra = <<>>) =>
              de.err = "Ok" /\ de.val = value

C1_Witness ==
    /\ pc = "decoded" /\ encBy = "to_vec" /\ decBy = "from_slice"
    /\ extra = <<>>
    /\ value.k = "struct" /\ Len(value.fields) = 2
    /\ value.fields[1].val.k = "map"
    /\ de.err = "Ok" /\ de.val = value

\* The smallest tag whose range contains the word.
C2_Tag(w) ==
    IF I64Le(I64(-128), w) /\ I64Le(w, I64(127)) THEN TagInt8
    ELSE IF I64Le(I64(-32768), w) /\ I64Le(w, I64(32767)) THEN TagInt16
    ELSE IF I64Le(I64(-2147483647 - 1), w) /\ I64Le(w, I64(2147483647))
    THEN TagInt32
    ELSE TagInt64

C2_Width(tag) ==
    CASE tag = TagInt8 -> 1 [] tag = TagInt16 -> 2 [] tag = TagInt32 -> 4
      [] tag = TagInt64 -> 8

\* C2: an integer given to the encoder as a value (any signed width, or
\* unsigned and at most i64::MAX) is written as the tag of the narrowest of
\* Int8, Int16, Int32, Int64 whose range holds it, followed by exactly 1, 2,
\* 4 or 8 payload bytes that hold it in two's complement.
C2_MinWidth ==
    (encBy \in {"to_vec", "Serializer"} /\ value.k = "int" /\ ~IsBigU64(value)) =>
        /\ ser.res = "Ok"
        /\ Len(ser.out) = 1 + C2_Width(C2_Tag(value.w))
        /\ ser.out[1] = C2_Tag(value.w)
        /\ SignExtend(InOrder(order, Tail(ser.out))) = value.w

C2_Witness ==
    /\ encBy = "to_vec"
    /\ value = IntV("i64", I64(-32769))
    /\ ser.res = "Ok" /\ ser.out[1] = TagInt32 /\ Len(ser.out) = 5

C4_Templated ==
    (pc = "decoded" /\ encBy = "wire" /\ extra = <<>>) =>
        /\ de.err = "Ok"
        /\ de.val = Expanded(tmpl)
        /\ Len(de.val.items) = Len(tmpl.rows)
        /\ to_vec(Expanded(tmpl)).res = "Ok"
        /\ Decode(Source, order, target, to_vec(Expanded(tmpl)).out)
              = [de EXCEPT !.d = Decode(Source, order, target,
                                        to_vec(Expanded(tmpl)).out).d]

C4_Witness ==
    /\ pc = "decoded" /\ encBy = "wire" /\ extra = <<>>
    /\ Len(tmpl.keys) = 2 /\ Len(tmpl.rows) = 2
    /\ tmpl.rows[1][2] = Missing /\ tmpl.rows[1][1] # Missing
    /\ tmpl.rows[2][1] # Missing /\ tmpl.rows[2][2] # Missing
    /\ de.err = "Ok"
    /\ Len(de.val.items[1].entries) = 1 /\ Len(de.val.items[2].entries) = 2

\* The bytes of one cell on the wire.
C5_Cell(cell) ==
    IF cell = Missing THEN 1
    ELSE Len(Serialize(NewSerializer(NativeEndian), cell).out)

RECURSIVE C5_Sum(_, _)
C5_Sum(f, n) == IF n = 0 THEN 0 ELSE C5_Sum(f, n - 1) + f[n]

\* The cursor after r rows of K cells each.
C5_RowEnd(t, r) ==
    Len(TemplateHeader(t).out)
    + C5_Sum([i \in 1..r |->
                 C5_Sum([j \in 1..Len(t.keys) |-> C5_Cell(t.rows[i][j])],
                        Len(t.keys))], r)

\* C5: each row of a Templated payload with K keys takes exactly K cells
\* from the source, Missing or not (rows that end in Missing cells and rows
\* of Missing cells alone included): after row r the cursor stands behind
\* r * K cells and no tag is held back; a payload that decodes has had
\* all of its N rows read so.
C5_CellsPerRow ==
    (pc = "decoded" /\ encBy = "wire") =>
        /\ \A r \in 1..Len(de.d.rows) :
              /\ de.d.rows[r].index = C5_RowEnd(tmpl, r)
              /\ de.d.rows[r].tag = NoTag
        /\ de.err = "Ok" => Len(de.d.rows) = Len(tmpl.rows)

C5_Witness ==
    /\ pc = "decoded" /\ encBy = "wire" /\ extra = <<>>
    /\ Len(tmpl.keys) = 2 /\ Len(tmpl.rows) = 2
    /\ tmpl.rows[1] = <<Missing, Missing>>
    /\ tmpl.rows[2][1] # Missing /\ tmpl.rows[2][2] = Missing
    /\ de.err = "Ok" /\ Len(de.d.rows) = 2
    /\ de.d.rows[1].index = Len(TemplateHeader(tmpl).out) + 2

\* C6: an enum variant in its Object form (a one-entry Object whose key is
\* the variant name and whose value is the payload), as to_vec writes the
\* newtype, tuple and struct variants, decodes back to that variant with
\* that payload.
C6_ObjectForm ==
    (/\ pc = "decoded" /\ encBy = "to_vec" /\ decBy = "from_slice"
     /\ extra = <<>>
     /\ value.k \in {"newtype_variant", "tuple_variant", "struct_variant"}) =>
        de.err = "Ok" /\ de.val = value

\* C7: a Deserializer<_, B> reads back the multi-byte integers and the
\* reals that a Serializer<_, B> wrote, for either byte order B.
C7_ByteOrder ==
    (/\ pc = "decoded" /\ encBy = "Serializer" /\ decBy = "Deserializer"
     /\ value.k \in {"int", "f64"} /\ ser.res = "Ok") =>
        de.err = "Ok" /\ de.val = value

\* The ASCII decimal digits of u64::MAX, 18446744073709551615.
C8_MaxDigits ==
    <<49, 56, 52, 52, 54, 55, 52, 52, 48, 55,
      51, 55, 48, 57, 53, 53, 49, 54, 49, 53>>

\* The u64 the encoder is handed first in v, and whether as a map key.
C8_First(v) ==
    CASE v.k = "int" /\ v.ty = "u64" -> {[n |-> v, key |-> FALSE]}
      [] v.k = "seq" /\ v.known /\ v.items # <<>>
         /\ v.items[1].k = "int" /\ v.items[1].ty = "u64" ->
            {[n |-> v.items[1], key |-> FALSE]}
      [] v.k = "struct" /\ v.fields # <<>>
         /\ v.fields[1].val.k = "int" /\ v.fields[1].val.ty = "u64" ->
            {[n |-> v.fields[1].val, key |-> FALSE]}
      [] v.k = "map" /\ v.known /\ v.entries # <<>>
         /\ v.entries[1].key.k = "int" /\ v.entries[1].key.ty = "u64" ->
            {[n |-> v.entries[1].key, key |-> TRUE]}
      [] v.k = "map" /\ v.known /\ v.entries # <<>>
         /\ v.entries[1].key.k = "str"
         /\ v.entries[1].val.k = "int" /\ v.entries[1].val.ty = "u64" ->
            {[n |-> v.entries[1].val, key |-> FALSE]}
      [] OTHER -> {}

\* C8 as stated: encoding a u64 greater than i64::MAX, wherever the encoder
\* meets it, yields IntegerOverflow; a u64 up to i64::MAX is written as the
\* bytes of the equal i64.
C8_AnyU64 ==
    encBy = "to_vec" =>
        /\ \A f \in C8_First(value) :
              IsBigU64(f.n) => ser.res = "IntegerOverflow"
        /\ (value.k = "int" /\ value.ty = "u64" /\ ~IsBigU64(value)) =>
              ser = to_vec(IntV("i64", value.w))

\* C8, amended: encoding a u64 greater than i64::MAX as a value (at the top
\* level, as a sequence element, a struct field or a map value) yields
\* IntegerOverflow and writes none of its bytes; a u64 up to i64::MAX is
\* written as the bytes of the equal i64; as a map key a u64 of any size is
\* rendered in ASCII decimal and written as a String, without error.
C8_ValueU64 ==
    encBy = "to_vec" =>
        /\ \A f \in C8_First(value) :
              (IsBigU64(f.n) /\ ~f.key) => ser.res = "IntegerOverflow"
        /\ IsBigU64(value) => ser.out = <<>>
        /\ (value.k = "int" /\ value.ty = "u64" /\ ~IsBigU64(value)) =>
              ser = to_vec(IntV("i64", value.w))
        /\ \A f \in C8_First(value) :
              (f.key /\ f.n.w = u64_MAX) =>
                  /\ ser.res = "Ok"
                  /\ SubSeq(ser.out, 4, 26)
                        = <<TagString, TagInt8, 20>> \o C8_MaxDigits

C8_Witness ==
    /\ encBy = "to_vec"
    /\ value.k = "map" /\ Len(value.entries) = 1
    /\ value.entries[1].key = IntV("u64", u64_MAX)
    /\ ser.res = "Ok"

\* The kinds of key the claim lets through: strings, integers, chars.
C9_Named(key) == key.k \in {"str", "bytes", "int", "char"}

RECURSIVE C9_Rejected(_)
\* The kinds of key the key encoder refuses: all but strings, integers,
\* chars, unit variants, and newtype structs around one of these.
C9_Rejected(key) ==
    CASE key.k \in {"str", "bytes", "int", "char", "unit_variant"} -> FALSE
      [] key.k = "newtype_struct" -> C9_Rejected(key.v)
      [] OTHER -> TRUE

\* The Object header of a map of n entries.
C9_Header(n) == <<TagObject, TagInt8, n>>

\* C9 as stated: a map with a key that is no string, integer or char yields
\* NonStringKey, and the sink holds the Object header and nothing else.
C9_AnyKey ==
    (/\ encBy = "to_vec" /\ value.k = "map" /\ value.known
     /\ \E i \in 1..Len(value.entries) : ~C9_Named(value.entries[i].key)) =>
        /\ ser.res = "NonStringKey"
        /\ ser.out = C9_Header(Len(value.entries))

\* C9, amended: a map whose key number i is the first that is no string,
\* integer, char, unit enum variant or newtype struct around one of
\* these yields NonStringKey; the sink then holds the Object header and the
\* complete encodings of the i - 1 entries before it, and the refused key
\* has added no byte.
C9_FirstBadKey ==
    (encBy = "to_vec" /\ value.k = "map" /\ value.known) =>
        \A i \in 1..Len(value.entries) :
            (/\ C9_Rejected(value.entries[i].key)
             /\ \A j \in 1..(i - 1) :
                   /\ value.entries[j].key.k = "str"
                   /\ InDomain(value.entries[j].val)) =>
                /\ ser.res = "NonStringKey"
                /\ ser.out =
                      C9_Header(Len(value.entries))
                      \o Flat([j \in 1..(i - 1) |->
                                  to_vec(value.entries[j].key).out
                                  \o to_vec(value.entries[j].val).out])

C9_Witness ==
    /\ encBy = "to_vec"
    /\ value.k = "map" /\ Len(value.entries) = 2
    /\ value.entries[2].key = BoolV(TRUE)
    /\ ser.res = "NonStringKey"
    /\ Len(ser.out) = 9

\* C10: a sequence or a map that does not tell its length yields
\* LengthRequired and no byte is written for it: at the top level the sink
\* stays empty, and inside a sequence or a map the sink holds what was
\* written before it (the header of the container, the children before it,
\* the key of its entry) and not one byte more.
C10_LengthRequired ==
    encBy = "to_vec" =>
        /\ UnknownLength(value) =>
              ser.res = "LengthRequired" /\ ser.out = <<>>
        /\ (value.k = "seq" /\ value.known) =>
              \A i \in 1..Len(value.items) :
                  (/\ UnknownLength(value.items[i])
                   /\ \A j \in 1..(i - 1) : InDomain(value.items[j])) =>
                      /\ ser.res = "LengthRequired"
                      /\ ser.out =
                            <<TagArray, TagInt8, Len(value.items)>>
                            \o Flat([j \in 1..(i - 1) |->
                                        to_vec(value.items[j]).out])
        /\ (/\ value.k = "map" /\ value.known /\ value.entries # <<>>
            /\ value.entries[1].key.k = "str"
            /\ UnknownLength(value.entries[1].val)) =>
              /\ ser.res = "LengthRequired"
              /\ ser.out = C9_Header(Len(value.entries))
                           \o to_vec(value.entries[1].key).out

C10_Witness ==
    /\ encBy = "to_vec"
    /\ value.k = "seq" /\ value.known /\ Len(value.items) = 2
    /\ value.items[1] = SeqV(<<IntV("i64", I64(5))>>)
    /\ value.items[2] = UnknownSeq
    /\ ser.res = "LengthRequired"
    /\ Len(ser.out) = 8

\* C11: a negative length or count prefix of a String, an Array, an Object
\* or a template (its key count, a key's length, its row count) makes the
\* decoder fail with IntegerOverflow, and no byte after the prefix is read.
C11_NegativeLength ==
    (pc = "decoded" /\ encBy = "peer") =>
        \A pl \in Places, n \in NegativeInts, tail \in Tails :
            (/\ pl.expects = "length"
             /\ ser.out = pl.prefix \o n \o tail
             /\ target = pl.shape) =>
                /\ de.err = "IntegerOverflow"
                /\ de.d.index = Len(pl.prefix) + Len(n)

\* C12: whenever a decode succeeds, each Array, Object and Templated value
\* in it has had exactly as many sub-values read as its prefix declares,
\* whatever the type it was decoded as, tuples and structs of another
\* arity included.
C12_ExactCount ==
    (pc = "decoded" /\ de.err = "Ok") =>
        \A i \in 1..Len(de.d.subs) :
            de.d.subs[i].read = de.d.subs[i].declared

\* C13: a Missing tag where a value, a key or a length is expected, other
\* than as the cell of a templated row (at the top level for any type, an
\* option included, as an Array element, as an Object key or value, as a
\* template key, as a length or count), fails the decode with an
\* invalid-type error, whatever follows it; as the cell of a row it is
\* taken as an absent entry.
C13_MissingOnlyInRows ==
    (pc = "decoded" /\ encBy = "peer") =>
        \A pl \in Places, tail \in Tails :
            (ser.out = pl.prefix \o <<TagMissing>> \o tail /\ target = pl.shape)
            => IF pl.expects # "cell" THEN de.err = "InvalidType"
               ELSE (tail = <<>> /\ pl.shape.of = RowShape) =>
                        de.err = "Ok" /\ de.val = SeqV(<<MapV(<<>>)>>)

C13_Witness ==
    /\ pc = "decoded" /\ encBy = "peer" /\ decBy = "from_reader"
    /\ ser.out = <<TagObject, TagInt8, 1, TagString, TagInt8, 1, 97,
                   TagMissing, TagInt8, 5>>
    /\ target = MapShape
    /\ de.err = "InvalidType"

\* The tags the dispatch table lists for a requested type.
C14_Listed(shape) ==
    CASE shape.s = "bool" -> {TagTrue, TagFalse}
      [] shape.s \in {"int", "f64"} -> NumberTags
      [] shape.s \in {"bytes", "str"} -> {TagString}
      [] shape.s = "unit" -> {TagNull}
      [] shape.s = "seq" -> {TagArray, TagTemplated}
      [] shape.s = "map" -> {TagObject}
      [] shape.s = "struct" -> {TagArray, TagTemplated, TagObject}
      [] shape.s = "enum" -> {TagObject, TagString}
      [] OTHER -> {}

\* C14: for each requested type of the dispatch table (bool, integer, float,
\* bytes, string, unit, sequence, map, struct, enum), a well-formed tag the
\* table does not list for it is refused with an invalid-type error, whether
\* the input ends after the tag or carries the tag's payload; a listed tag
\* with its payload is not refused with an invalid-type error (a Real handed
\* to an integer visitor aside, which the visitor itself refuses).
C14_Dispatch ==
    (pc = "decoded" /\ encBy = "peer") =>
        \A tag \in TagArray..TagMissing :
            (/\ C14_Listed(target) # {}
             /\ ser.out \in {<<tag>>, <<tag>> \o Complete(tag)}) =>
                IF tag \notin C14_Listed(target) THEN de.err = "InvalidType"
                ELSE (/\ ser.out = <<tag>> \o Complete(tag)
                      /\ ~(target.s = "int" /\ tag = TagReal)) =>
                         de.err # "InvalidType"

\* The type that takes a tag, and the value the tag's complete payload
\* denotes.
C15_Shape(tag) ==
    CASE tag \in {TagArray, TagTemplated} -> SeqShape
      [] tag = TagObject -> MapShape
      [] tag = TagString -> StrShape
      [] tag \in {TagInt8, TagInt16, TagInt32, TagInt64} -> IntShape
      [] tag = TagReal -> [s |-> "f64"]
      [] tag \in {TagTrue, TagFalse} -> [s |-> "bool"]
      [] OTHER -> [s |-> "unit"]

C15_Value(tag) ==
    CASE tag \in {TagArray, TagTemplated} -> SeqV(<<>>)
      [] tag = TagObject -> MapV(<<>>)
      [] tag = TagString -> StrV(<<97>>)
      [] tag = TagInt8 -> IntV("i64", I64(5))
      [] tag = TagInt16 -> IntV("i64", I64(1285))
      [] tag = TagInt32 -> IntV("i64", I64(84215045))
      [] tag = TagInt64 -> IntV("i64", <<0, 5, 5, 5, 5, 5, 5, 0>>)
      [] tag = TagReal -> FloatV(<<0, 0, 0, 0, 0, 0, 0, 0>>)
      [] tag = TagTrue -> BoolV(TRUE)
      [] tag = TagFalse -> BoolV(FALSE)
      [] OTHER -> Unit

\* The tag byte the encoder opens a value of each kind with.
C15_Opens(v) ==
    CASE v.k \in {"seq", "tuple", "tuple_struct"} -> {TagArray}
      [] v.k \in {"map", "struct"} -> {TagObject}
      [] v.k \in {"str", "bytes", "char", "unit_variant"} -> {TagString}
      [] v.k = "int" -> {TagInt8, TagInt16, TagInt32, TagInt64}
      [] v.k = "f64" -> {TagReal}
      [] v.k = "bool" -> IF v.b THEN {TagTrue} ELSE {TagFalse}
      [] v.k \in {"unit", "unit_struct", "none"} -> {TagNull}
      [] OTHER -> TagArray..TagNull

\* C15: a byte above 0x0c where the decoder reads a tag (for a value, a
\* templated cell, a key or a length) fails the decode with MalformedTag,
\* whatever follows it; each byte 0x00..0x0b with its payload decodes as the
\* kind of value its name says (Missing, 0x0c, is C13's); and the encoder
\* opens each kind of value with the same byte.
C15_TagBytes ==
    /\ (pc = "decoded" /\ encBy = "peer") =>
          /\ \A pl \in Places, b \in {TagMissing + 1, 255}, tail \in Tails :
                (ser.out = pl.prefix \o <<b>> \o tail /\ target = pl.shape) =>
                    de.err = "MalformedTag"
          /\ \A tag \in TagArray..TagTemplated :
                (ser.out = <<tag>> \o Complete(tag) /\ target = C15_Shape(tag)) =>
                    de.err = "Ok" /\ de.val = C15_Value(tag)
    /\ (encBy = "to_vec" /\ ser.res = "Ok") => ser.out[1] \in C15_Opens(value)

\* 0x0d as the key of an Object read by from_reader.
C15_Witness ==
    /\ pc = "decoded" /\ encBy = "peer" /\ decBy = "from_reader"
    /\ ser.out = <<TagObject, TagInt8, 1, TagMissing + 1, TagInt8, 5>>
    /\ target = MapShape
    /\ de.err = "MalformedTag"

\* The bytes of x, for the options drawn.
C16_Bytes(x) ==
    CASE x = IntV("i64", I64(5)) -> <<TagInt8, 5>>
      [] x = StrV(<<97>>) -> <<TagString, TagInt8, 1, 97>>
      [] OTHER -> <<TagNull>>

\* C16: none encodes as the Null byte alone and some(x) as x alone.  When an
\* option is requested and the input opens with Null, that byte is consumed
\* and the value is none; when it opens with anything else the outcome
\* (value, error and cursor) is that of decoding the inner type from the same
\* input, the value wrapped in some.  So some(unit) is written as the Null
\* byte and read back as none.
C16_Option ==
    /\ (encBy \in {"to_vec", "Serializer"} /\ value.k = "none") =>
          ser.res = "Ok" /\ ser.out = <<TagNull>>
    /\ (encBy \in {"to_vec", "Serializer"} /\ value.k = "some") =>
          ser.res = "Ok" /\ ser.out = C16_Bytes(value.v)
    /\ (pc = "decoded" /\ target.s = "option") =>
          IF ser.out # <<>> /\ ser.out[1] = TagNull
          THEN /\ de.d.index >= 1
               /\ de.d.tag = NoTag
               /\ IF Len(ser.out \o extra) = 1
                  THEN de.err = "Ok" /\ de.val = [k |-> "none"] /\ de.d.index = 1
                  ELSE de.err = "TrailingBytes"
          ELSE IF Decode(Source, order, target.of, ser.out \o extra).err = "Ok"
          THEN de = Wrap("some", Decode(Source, order, target.of, ser.out \o extra))
          ELSE de = Decode(Source, order, target.of, ser.out \o extra)

\* some(5) written by to_vec and read back whole by from_slice, and some(unit)
\* read back as none.
C16_Witness ==
    /\ pc = "decoded" /\ encBy = "to_vec" /\ decBy = "from_slice"
    /\ value = [k |-> "some", v |-> IntV("i64", I64(5))]
    /\ ser.out = <<TagInt8, 5>> /\ extra = <<>>
    /\ de.err = "Ok" /\ de.val = value

C16_WitnessNull ==
    /\ pc = "decoded" /\ encBy = "to_vec"
    /\ value = [k |-> "some", v |-> Unit]
    /\ ser.out = <<TagNull>> /\ extra = <<>>
    /\ de.err = "Ok" /\ de.val = [k |-> "none"]

\* n as a minimum-width tagged integer.
C17_Count(n) ==
    <<C2_Tag(I64(n))>>
    \o InOrder(NativeEndian, LowBytes(I64(n), C2_Width(C2_Tag(I64(n)))))

\* The bytes of a value on its own.
C17_Bytes(v) == to_vec(v).out

\* A key of a map: a String, whose text is the key's own for string keys.
C17_Key(key) == serialize_key(NewSerializer(NativeEndian), key).out

C17_IsString(bytes, key) ==
    /\ Len(bytes) >= 3
    /\ bytes[1] = TagString
    /\ SubSeq(bytes, 2, 3) = C17_Count(Len(bytes) - 3)
    /\ key.k \in {"str", "bytes"} => SubSeq(bytes, 4, Len(bytes)) = key.s

\* C17: a sequence (or tuple) of n children that to_vec encodes is the Array
\* tag, n as a minimum-width tagged integer, and the n children's encodings
\* in order, and nothing more; a map or struct of n entries is the Object
\* tag, n likewise, and for each entry in order its key as a String followed
\* by its value's encoding, and nothing more.
C17_Layout ==
    (encBy = "to_vec" /\ ser.res = "Ok") =>
        /\ (value.k \in {"seq", "tuple", "tuple_struct"}) =>
              ser.out = <<TagArray>> \o C17_Count(Len(value.items))
                        \o Flat([i \in 1..Len(value.items) |->
                                    C17_Bytes(value.items[i])])
        /\ (value.k = "map") =>
              /\ ser.out = <<TagObject>> \o C17_Count(Len(value.entries))
                           \o Flat([i \in 1..Len(value.entries) |->
                                       C17_Key(value.entries[i].key)
                                       \o C17_Bytes(value.entries[i].val)])
              /\ \A i \in 1..Len(value.entries) :
                    C17_IsString(C17_Key(value.entries[i].key),
                                 value.entries[i].key)
        /\ (value.k = "struct") =>
              ser.out = <<TagObject>> \o C17_Count(Len(value.fields))
                        \o Flat([i \in 1..Len(value.fields) |->
                                    <<TagString>>
                                    \o C17_Count(Len(value.fields[i].name))
                                    \o value.fields[i].name
                                    \o C17_Bytes(value.fields[i].val)])

\* The map {a: 5, b: -300}.
C17_Witness ==
    /\ encBy = "to_vec" /\ ser.res = "Ok"
    /\ value = MapV(<<Entry(StrV(<<97>>), IntV("i64", I64(5))),
                      Entry(StrV(<<98>>), IntV("i64", I64(-300)))>>)
    /\ Len(ser.out) = 3 + 4 + 2 + 4 + 3

\* C18: when a byte string s is encoded into a writer, either the writer has
\* taken the String tag, the length and all of the bytes of s, or the
\* encoder returns an IO error.
C18_ShortWrite ==
    (encBy = "to_writer" /\ value.k \in {"str", "bytes"}) =>
        \/ ser.res = "Io"
        \/ /\ ser.res = "Ok"
           /\ ser.out = <<TagString, TagInt8, Len(value.s)>> \o value.s

\* The cursor and the pushed-back tag before the i-th tag read.
C19_IndexBefore(i) == IF i = 1 THEN 0 ELSE calls[i - 1].index

C19_TagBefore(i) == IF i = 1 THEN NoTag ELSE calls[i - 1].tag

\* The i-th tag read took the next byte of the input, b, and returned it.
C19_TookByte(i) ==
    /\ calls[i].index = C19_IndexBefore(i) + 1
    /\ calls[i].index <= Len(ser.out)
    /\ calls[i].val = ser.out[calls[i].index]

\* The i-th tag read failed: at the end of the input (nothing consumed) or on
\* a byte that is no tag (which is consumed); the slot is left empty.
C19_Failed(i) ==
    /\ calls[i].tag = NoTag
    /\ \/ /\ calls[i].err = "Io"
          /\ calls[i].index = C19_IndexBefore(i)
          /\ calls[i].index = Len(ser.out)
       \/ /\ calls[i].err = "MalformedTag"
          /\ calls[i].index = C19_IndexBefore(i) + 1
          /\ ser.out[calls[i].index] > TagMissing

\* C19: the decoder holds at most one pushed-back tag.  peek_tag with the
\* slot full returns the tag in it and consumes nothing; with the slot empty
\* it consumes one byte, returns it and leaves it in the slot, or fails and
\* leaves the slot empty.  So consecutive peek_tag calls consume one byte
\* between them and return the same tag.  read_tag with the slot full
\* returns the tag in it, consumes nothing and empties the slot; with the
\* slot empty it consumes exactly one byte and leaves the slot empty.
C19_Pushback ==
    pc = "open" =>
        /\ \A i \in 1..Len(calls) :
              /\ calls[i].tag \in {NoTag} \cup (TagArray..TagMissing)
              /\ IF C19_TagBefore(i) # NoTag
                 THEN /\ calls[i].err = "Ok"
                      /\ calls[i].val = C19_TagBefore(i)
                      /\ calls[i].index = C19_IndexBefore(i)
                      /\ calls[i].tag =
                            IF calls[i].op = "peek_tag" THEN calls[i].val
                            ELSE NoTag
                 ELSE IF calls[i].err = "Ok"
                 THEN /\ C19_TookByte(i)
                      /\ calls[i].tag =
                            IF calls[i].op = "peek_tag" THEN calls[i].val
                            ELSE NoTag
                 ELSE C19_Failed(i)
        /\ \A i \in 1..Len(calls), j \in 1..Len(calls) :
              (/\ i < j
               /\ \A k \in i..(j - 1) : calls[k].op = "peek_tag"
               /\ calls[i].err = "Ok") =>
                  /\ calls[j].err = "Ok"
                  /\ calls[j].val = calls[i].val
                  /\ calls[j].index = calls[i].index
        /\ de.d.index = C19_IndexBefore(Len(calls) + 1)
        /\ de.d.tag = C19_TagBefore(Len(calls) + 1)

\* Two peeks and a read of the first byte, then a read of the second.
C19_Witness ==
    /\ pc = "open"
    /\ ser.out = <<TagTrue, TagMissing>>
    /\ Len(calls) = 4
    /\ calls[1].op = "peek_tag" /\ calls[2].op = "peek_tag"
    /\ calls[3].op = "read_tag" /\ calls[4].op = "read_tag"
    /\ calls[2].val = TagTrue /\ calls[3].val = TagTrue /\ calls[3].index = 1
    /\ calls[4].val = TagMissing /\ calls[4].index = 2 /\ calls[4].tag = NoTag

\* The positions of a row whose cells are not Missing.
C20_Present(row) == {j \in 1..Len(row) : row[j] # Missing}

\* The position of the i-th cell of a row that is not Missing.
C20_Position(row, i) ==
    CHOOSE j \in C20_Present(row) :
        Cardinality({k \in C20_Present(row) : k <= j}) = i

\* C20: from a slice and from a reader alike, the key delivered with each
\* cell of each row of a templated payload is the key read at that position
\* of the template header, whatever strings were read into the scratch
\* buffer in between; the keys read from a reader (Copied views) are held
\* as owned copies and the keys read from a slice (Borrowed views) borrowed.
C20_KeysStable ==
    (pc = "decoded" /\ encBy = "wire" /\ de.err = "Ok") =>
        /\ Len(de.d.keys) = Len(tmpl.keys)
        /\ \A j \in 1..Len(tmpl.keys) :
              /\ de.d.keys[j].bytes = tmpl.keys[j]
              /\ de.d.keys[j].owned = (Source = "io")
        /\ Len(de.val.items) = Len(tmpl.rows)
        /\ \A r \in 1..Len(tmpl.rows) :
              /\ Len(de.val.items[r].entries)
                    = Cardinality(C20_Present(tmpl.rows[r]))
              /\ \A i \in 1..Len(de.val.items[r].entries) :
                    de.val.items[r].entries[i].key
                       = StrV(tmpl.keys[C20_Position(tmpl.rows[r], i)])

\* Read from a reader: two keys, "a" and "bb", and two rows of text cells;
\* the scratch buffer holds the last cell, and the second row's second key
\* is "bb" all the same.
C20_Witness ==
    /\ pc = "decoded" /\ encBy = "wire" /\ decBy = "from_reader"
    /\ tmpl.keys = <<(<<97>>), (<<98, 98>>)>>
    /\ tmpl.rows = <<(<<StrV(<<97, 97>>), Missing>>),
                     (<<Missing, StrV(<<97, 97>>)>>)>>
    /\ de.err = "Ok"
    /\ de.d.scratch = <<97, 97>>
    /\ de.val.items[2].entries[1].key = StrV(<<98, 98>>)

\* C21: every view that read_ref returned from a slice is Borrowed and is
\* the len bytes of the input from the cursor on; every view it returned
\* from a reader is Copied and is the scratch buffer, which holds the next
\* len bytes of the stream.  So a String, the key of an Object and the key
\* of a templated row reach a type that takes borrowed bytes only (&[u8])
\* when the source is a slice, and are refused from a reader.
C21_ZeroCopy ==
    pc = "decoded" =>
        /\ \A i \in 1..Len(de.d.views) :
              /\ de.d.views[i].kind =
                    IF de.d.src = "slice" THEN "Borrowed" ELSE "Copied"
              /\ Len(de.d.views[i].bytes) = de.d.views[i].len
              /\ de.d.views[i].bytes =
                    SubSeq(de.d.input, de.d.views[i].at + 1,
                           de.d.views[i].at + de.d.views[i].len)
              /\ de.d.src = "io" => de.d.views[i].scratch = de.d.views[i].bytes
              /\ de.d.src = "slice" => de.d.views[i].scratch = <<>>
        /\ (encBy = "peer" /\ \E p \in BorrowedPayloads :
                                  p.bytes = ser.out /\ p.shape = target) =>
              /\ de.d.views # <<>>
              /\ IF de.d.src = "slice" THEN de.err = "Ok"
                 ELSE de.err = "InvalidType"
              /\ (de.err = "Ok" /\ target = BorrowedShape) =>
                    de.val = BytesV(<<97>>)

\* The Object {a: 5} read from a slice into a map keyed by &[u8].
C21_Witness ==
    /\ pc = "decoded" /\ encBy = "peer" /\ decBy = "from_slice"
    /\ target = [s |-> "map", key |-> BorrowedShape, of |-> IntShape]
    /\ de.err = "Ok"
    /\ de.val = MapV(<<Entry(BytesV(<<97>>), IntV("i64", I64(5)))>>)
    /\ de.d.views = <<[kind |-> "Borrowed", at |-> 6, len |-> 1,
                       bytes |-> <<97>>, scratch |-> <<>>]>>

\* The cursor before the i-th read of the open slice source.
C22_Before(i) == IF i = 1 THEN 0 ELSE calls[i - 1].index

\* C22: the cursor of a slice source stays within 0..length.  next takes the
\* byte at the cursor and advances by one, or reports the end of the input
\* and does not move.  read_ref(len) with len bytes left returns them and
\* advances by len; with fewer left, or a len that overflows the cursor, it
\* returns an IO error (UnexpectedEof) and does not move.
C22_SliceCursor ==
    /\ de.d.src = "slice" => de.d.index \in 0..Len(de.d.input)
    /\ pc = "source" =>
          /\ de.d.index = C22_Before(Len(calls) + 1)
          /\ \A i \in 1..Len(calls) :
                /\ calls[i].index \in 0..Len(ser.out)
                /\ calls[i].op = "next" =>
                      /\ calls[i].err = "Ok"
                      /\ IF C22_Before(i) < Len(ser.out)
                         THEN /\ calls[i].some
                              /\ calls[i].bytes = <<ser.out[C22_Before(i) + 1]>>
                              /\ calls[i].index = C22_Before(i) + 1
                         ELSE /\ ~calls[i].some
                              /\ calls[i].index = C22_Before(i)
                /\ calls[i].op = "read_ref" =>
                      IF calls[i].len # HugeLen
                         /\ C22_Before(i) + calls[i].len <= Len(ser.out)
                      THEN /\ calls[i].err = "Ok"
                           /\ calls[i].index = C22_Before(i) + calls[i].len
                           /\ calls[i].bytes =
                                 SubSeq(ser.out, C22_Before(i) + 1,
                                        C22_Before(i) + calls[i].len)
                      ELSE /\ calls[i].err = "Io"
                           /\ calls[i].index = C22_Before(i)

\* Three bytes: a view of two, a view of two more refused with one byte
\* left, that byte taken by next, and the end reported.
C22_Witness ==
    /\ pc = "source"
    /\ ser.out = <<97, 255, 97>>
    /\ Len(calls) = 4
    /\ calls[1].op = "read_ref" /\ calls[1].len = 2 /\ calls[1].index = 2
    /\ calls[2].op = "read_ref" /\ calls[2].err = "Io" /\ calls[2].index = 2
    /\ calls[3].op = "next" /\ calls[3].some /\ calls[3].index = 3
    /\ calls[4].op = "next" /\ ~calls[4].some /\ calls[4].index = 3

\* C23: whatever value the encoder is given, and whether it succeeds or
\* fails midway, every tag it has written is one of Array .. Null (0x00 ..
\* 0x0a), never Templated or Missing, and lies in the output where the
\* encoder wrote it; the output of a successful to_vec begins with such a
\* tag.
C23_NoTemplated ==
    encBy \in {"to_vec", "Serializer", "to_writer"} =>
        /\ \A i \in 1..Len(ser.tags) :
              /\ ser.tags[i].tag \in TagArray..TagNull
              /\ ser.tags[i].at \in 1..Len(ser.out)
              /\ ser.out[ser.tags[i].at] = ser.tags[i].tag
        /\ (encBy = "to_vec" /\ ser.res = "Ok") =>
              /\ ser.out # <<>>
              /\ ser.tags # <<>>
              /\ ser.tags[1].at = 1
              /\ ser.out[1] \in TagArray..TagNull

\* The i8 12 written by to_vec: the byte 0x0c is in the output, as the
\* payload of the Int8 tag.
C23_Witness ==
    /\ encBy = "to_vec" /\ ser.res = "Ok"
    /\ value = IntV("i8", I64(12))
    /\ ser.out = <<TagInt8, TagMissing>>
    /\ ser.tags = <<[tag |-> TagInt8, at |-> 1]>>

\* The decimal digits of a natural number, as ASCII.
RECURSIVE C24_Decimal(_)
C24_Decimal(n) ==
    IF n < 10 THEN <<48 + n>> ELSE C24_Decimal(n \div 10) \o <<48 + (n % 10)>>

C24_Text(n) == IF n < 0 THEN <<45>> \o C24_Decimal(0 - n) ELSE C24_Decimal(n)

\* The integer keys drawn, each with its decimal rendering: the narrow ones
\* computed from the number, the wide ones written out.
C24_Table ==
    {[key |-> IntV(ty, I64(n)), text |-> C24_Text(n)] :
        ty \in {"i8"}, n \in {-128, 127}}
    \cup {[key |-> IntV(ty, I64(n)), text |-> C24_Text(n)] :
        ty \in {"i16"}, n \in {-32768, 32767}}
    \cup {[key |-> IntV(ty, I64(n)), text |-> C24_Text(n)] :
        ty \in {"u8"}, n \in {0, 255}}
    \cup {[key |-> IntV(ty, I64(n)), text |-> C24_Text(n)] :
        ty \in {"u16"}, n \in {256, 65535}}
    \cup {[key |-> IntV("i64", I64(-1)), text |-> <<45, 49>>],
          [key |-> IntV("u64", I64(0)), text |-> <<48>>],
          [key |-> IntV("i32", i32_MIN),
           text |-> <<45, 50, 49, 52, 55, 52, 56, 51, 54, 52, 56>>],
          [key |-> IntV("i32", i32_MAX),
           text |-> <<50, 49, 52, 55, 52, 56, 51, 54, 52, 55>>],
          [key |-> IntV("u32", <<0, 0, 0, 0, 255, 255, 255, 255>>),
           text |-> <<52, 50, 57, 52, 57, 54, 55, 50, 57, 53>>],
          [key |-> IntV("i64", i64_MIN),
           text |-> <<45, 57, 50, 50, 51, 51, 55, 50, 48, 51,
                      54, 56, 53, 52, 55, 55, 53, 56, 48, 56>>],
          [key |-> IntV("i64", i64_MAX),
           text |-> <<57, 50, 50, 51, 51, 55, 50, 48, 51, 54,
                      56, 53, 52, 55, 55, 53, 56, 48, 55>>],
          [key |-> IntV("u64", u64_MAX),
           text |-> <<49, 56, 52, 52, 54, 55, 52, 52, 48, 55,
                      51, 55, 48, 57, 53, 53, 49, 54, 49, 53>>]}

\* Where the key of entry i starts in the encoding of a map whose earlier
\* entries take six bytes each (a one-letter key and an Int8 value).
C24_KeyAt(i) == 4 + 6 * (i - 1)

\* C24: an integer map key of any width, at the ends of its range, is
\* written without error as the String tag, the length as Int8 and the
\* key's ASCII decimal rendering, with a leading '-' when negative; the
\* rendering is at most 20 bytes long.  Checked on a sink that takes every
\* byte.
C24_IntegerKeys ==
    (encBy = "to_vec" /\ value.k = "map") =>
        \A i \in 1..Len(value.entries) :
            value.entries[i].key.k = "int" =>
                /\ ser.res = "Ok"
                /\ \E row \in C24_Table :
                      /\ row.key = value.entries[i].key
                      /\ Len(row.text) \in 1..KeyBufLen
                      /\ SubSeq(ser.out, C24_KeyAt(i),
                                C24_KeyAt(i) + 2 + Len(row.text))
                            = <<TagString, TagInt8, Len(row.text)>> \o row.text

C24_Witness ==
    /\ encBy = "to_vec" /\ ser.res = "Ok"
    /\ value = MapV(<<Entry(IntV("i64", i64_MIN), IntV("i64", I64(-300)))>>)
    /\ ser.out = <<TagObject, TagInt8, 1, TagString, TagInt8, 20,
                   45, 57, 50, 50, 51, 51, 55, 50, 48, 51,
                   54, 56, 53, 52, 55, 55, 53, 56, 48, 56,
                   TagInt16, 212, 254>>

\* e when the bytes reach that far, else -1.
C25_Fits(bytes, e) == IF e >= 0 /\ e <= Len(bytes) THEN e ELSE 0 - 1

\* A count written as Int8 at cursor c: its value, or -1.
C25_Count(bytes, c) ==
    IF c >= 0 /\ c + 2 <= Len(bytes) /\ bytes[c + 1] = TagInt8
          /\ bytes[c + 2] < 128
    THEN bytes[c + 2] ELSE 0 - 1

RECURSIVE C25_ValueEnd(_, _), C25_ValuesEnd(_, _, _), C25_EntriesEnd(_, _, _),
          C25_CellsEnd(_, _, _)

\* The cursor after the n values that start at cursor c, or -1.
C25_ValuesEnd(bytes, c, n) ==
    IF c < 0 \/ n < 0 THEN 0 - 1
    ELSE IF n = 0 THEN c
    ELSE C25_ValuesEnd(bytes, C25_ValueEnd(bytes, c), n - 1)

\* The cursor after the n entries (a String key, then a value) at c, or -1.
C25_EntriesEnd(bytes, c, n) ==
    IF c < 0 \/ n < 0 THEN 0 - 1
    ELSE IF n = 0 THEN c
    ELSE IF c >= Len(bytes) \/ bytes[c + 1] # TagString THEN 0 - 1
    ELSE C25_EntriesEnd(
             bytes, C25_ValueEnd(bytes, C25_ValueEnd(bytes, c)), n - 1)

\* The cursor after the n cells (a value or a Missing tag) at c, or -1.
C25_CellsEnd(bytes, c, n) ==
    IF c < 0 \/ n < 0 THEN 0 - 1
    ELSE IF n = 0 THEN c
    ELSE IF c >= Len(bytes) THEN 0 - 1
    ELSE IF bytes[c + 1] = TagMissing THEN C25_CellsEnd(bytes, c + 1, n - 1)
    ELSE C25_CellsEnd(bytes, C25_ValueEnd(bytes, c), n - 1)

\* The rows of a template whose keys array starts at cursor c.
C25_TemplateEnd(bytes, c, keysEnd) ==
    IF keysEnd < 0 \/ C25_Count(bytes, keysEnd) < 0 THEN 0 - 1
    ELSE C25_CellsEnd(bytes, C25_Fits(bytes, keysEnd + 2),
                      C25_Count(bytes, c + 1) * C25_Count(bytes, keysEnd))

\* The cursor after the well-formed BSER value that starts at cursor c, by
\* the grammar of the format alone; -1 when no well-formed value starts
\* there.  Counts and lengths are the Int8 ones.
C25_ValueEnd(bytes, c) ==
    IF c < 0 \/ c >= Len(bytes) THEN 0 - 1
    ELSE CASE bytes[c + 1] \in {TagTrue, TagFalse, TagNull} -> c + 1
           [] bytes[c + 1] = TagInt8 -> C25_Fits(bytes, c + 2)
           [] bytes[c + 1] = TagInt16 -> C25_Fits(bytes, c + 3)
           [] bytes[c + 1] = TagInt32 -> C25_Fits(bytes, c + 5)
           [] bytes[c + 1] \in {TagInt64, TagReal} -> C25_Fits(bytes, c + 9)
           [] bytes[c + 1] = TagString ->
                 IF C25_Count(bytes, c + 1) < 0 THEN 0 - 1
                 ELSE C25_Fits(bytes, c + 3 + C25_Count(bytes, c + 1))
           [] bytes[c + 1] = TagArray ->
                 C25_ValuesEnd(bytes, C25_Fits(bytes, c + 3),
                               C25_Count(bytes, c + 1))
           [] bytes[c + 1] = TagObject ->
                 C25_EntriesEnd(bytes, C25_Fits(bytes, c + 3),
                                C25_Count(bytes, c + 1))
           [] bytes[c + 1] = TagTemplated ->
                 IF c + 1 >= Len(bytes) \/ bytes[c + 2] # TagArray
                       \/ C25_Count(bytes, c + 2) < 0
                 THEN 0 - 1
                 ELSE C25_TemplateEnd(
                          bytes, c + 1,
                          C25_ValuesEnd(bytes, C25_Fits(bytes, c + 4),
                                        C25_Count(bytes, c + 2)))
           [] OTHER -> 0 - 1


\* Where the i-th decode of the stream started.
C25_Start(i) == IF i = 1 THEN 0 ELSE calls[i - 1].index

\* C25: on one decoder over encodings laid end to end, each decode that
\* succeeds where a well-formed value starts leaves the pushed-back tag
\* empty and the cursor at the first byte after that value's encoding,
\* whatever the type asked for; so when the encoding is well-formed and the
\* first decode succeeds, every later one succeeds with the same value, and
\* end() then returns Ok.
C25_NoReadAhead ==
    pc \in {"stream", "ended"} =>
        /\ \A i \in 1..Len(calls) :
              (/\ calls[i].err = "Ok"
               /\ C25_ValueEnd(de.d.input, C25_Start(i)) >= 0) =>
                  /\ calls[i].tag = NoTag
                  /\ calls[i].index = C25_ValueEnd(de.d.input, C25_Start(i))
        /\ (/\ calls # <<>>
            /\ C25_ValueEnd(ser.out, 0) = Len(ser.out)
            /\ calls[1].err = "Ok") =>
               /\ \A i \in 1..Len(calls) :
                     calls[i].err = "Ok" /\ calls[i].val = calls[1].val
               /\ pc = "ended" => de.err = "Ok"

\* Every encoding the encoder wrote is a well-formed value by the grammar.
C25_Grammar ==
    (encBy \in {"to_vec", "wire"} /\ ser.res = "Ok") =>
        C25_ValueEnd(ser.out, 0) = Len(ser.out)

\* Apart from decodes that left declared sub-values unread, the decodes of
\* a stream leave no tag pushed back and the cursor after the value.
C25_CompleteReads ==
    (\A j \in 1..Len(de.d.subs) : de.d.subs[j].read = de.d.subs[j].declared)
        => C25_NoReadAhead

=============================================================================
